---- MODULE Spec2Model ----
(***************************************************************************)
(* Verification model of the snmp-agent hardware-metrics aggregator:       *)
(*   - the fleet store        (src/src/core/data_manager.py)               *)
(*   - the embedded SNMP agent (src/src/agent/snmp_agent.py)               *)
(*   - the MQTT republisher   (src/src/services/mqtt_broker.py,            *)
(*                             src/src/web/api.py)                         *)
(*   - the discovery sweep    (src/src/discovery/network_scanner.py)       *)
(*   - the collectors         (src/src/collectors/)                        *)
(*   - the collection loop and the start and shutdown of the programs      *)
(*                            (src/src/main.py, src/src/web/api.py)        *)
(* Each subsystem has its own specification (SpecStore, SpecMerge,         *)
(* SpecFleet, SpecCycle, SpecAgent, SpecBulk, SpecWalk, SpecProjection,    *)
(* SpecSwap, SpecRebroadcast, SpecMqtt, SpecReconnect, SpecStop,           *)
(* SpecPublish, SpecScan, SpecPings, SpecCollectors, SpecNames, SpecLife)  *)
(* over the shared variables; the variables a specification does not use   *)
(* keep their initial values. SpecReconnect and SpecWalk carry the         *)
(* fairness conditions under which the liveness claims are checked.        *)
(***************************************************************************)
EXTENDS Integers, Sequences, FiniteSets, TLC

VARIABLES
    heap,               \* object store: reference -> MachineInfo (Python object identity)
    machines,           \* DataManager._machines : ip -> reference (NoRef when absent)
    snapshots,          \* DataManager._snapshots: ip -> HardwareSnapshot (NoSnap when absent)
    hist,               \* history: per ip, what add_machine has been given since the entry was created
    lastOp,             \* history: the last store operation and the values it met
    lastMerge,          \* history: the hostname and last_seen of the add_machine call followed
    community_read,     \* config.snmp.community_read
    oid_data,           \* SimpleSNMPAgent._oid_data: the projection, OID -> Python value
    sorted_oids,        \* SimpleSNMPAgent._sorted_oids
    ip_to_index,        \* SimpleSNMPAgent._ip_to_index
    request,            \* the datagram being handled by datagram_received (NoRequest when idle)
    response,           \* what handle_snmp_message returned for it
    polled,             \* history: the value the publishing loop last polled for the custom OID
    mqtt_enabled,       \* config.mqtt.enabled
    mqtt_running,       \* MQTTBrokerService._running
    client_connected,   \* MQTTBrokerService._client_connected
    reconnect_interval, \* MQTTBrokerService._reconnect_interval
    reconnect_task,     \* where MQTTBrokerService._reconnect_task stands
    sleeping_for,       \* the argument of the asyncio.sleep the reconnect task is in
    fail_streak,        \* history: failed reconnect attempts since the last successful connect
    last_publish,       \* history: the outcome of the last publish call
    sweep_pc,           \* where NetworkScanner.ping_sweep stands
    network,            \* the subnet being swept: its number of host bits
    hosts,              \* the list `hosts` of ping_sweep
    sweep_next,         \* the position in `hosts` of the next ping task
    pings,              \* history: address -> number of pings issued to it in this sweep
    collect_call,       \* the collect_all call followed: collector and what its sub-steps did
    collect_result,     \* what that call gave its caller
    named,              \* the MachineInfo whose display_name is read
    display,            \* what display_name returned for it
    update_pc,          \* where _update_data stands: idle, cleared or filled
    app,                \* the program that was started: main (main.py), web (api.py) or none
    stop_pc,            \* where the shutdown routine of the program stands
    running,            \* the _running flags: of the application and of the agent
    cancel_req,         \* the tasks whose cancel() was called and not yet delivered
    task,               \* the periodic tasks: per task, its state and the item it works on
    transport,          \* the UDP socket of the agent and the MQTT client: none, open or closed
    collecting,         \* whether _collect_all_metrics is running
    todo,               \* the machines of its list that the loop has yet to visit
    visit,              \* history: the last visit, its host, settings, outcomes and the methods tried
    updates,            \* history: ip -> update_snapshot calls issued for it in this cycle
    sem,                \* per scan, the value of the semaphore its ping_sweep created
    waiting,            \* per scan, the ping tasks of its sweep that have not entered the semaphore
    in_flight,          \* per scan, the ping subprocesses of its sweep that are outstanding
    mqtt_configs,       \* _mqtt_device_configs of api.py: ip -> the saved device configuration
    loop_running,       \* the flag _running of api.py
    pub_pc,             \* where _mqtt_oid_publishing_loop stands
    pub_list,           \* history: the (ip, config) pairs of the iteration, as list(...items()) gave them
    pub_items,          \* the pairs of the iteration that the loop has yet to reach
    pub_device,         \* the pair in hand, with the snapshot get_snapshot returned for it
    pub_oid,            \* the position in custom_oids of the entry in hand
    pub_log,            \* history: the polls and publishes attempted in this iteration
    broker_accepts,     \* environment: the broker accepts a connection made now
    mqtt_stop_pc,       \* where MQTTBrokerService.stop stands
    publish_pc,         \* whether a call of the broker's publish is in flight
    late_calls,         \* history: a call of the broker was begun after stop had completed
    walk_pc,            \* where the manager's walk by GETNEXT stands
    walk_start,         \* history: the OID the walk started from
    walk_at,            \* the OID of the next GETNEXT of the walk
    walk_seen           \* history: the OIDs the walk was answered with, in order

storeVars == <<heap, machines, snapshots, hist, lastOp, lastMerge>>

agentVars == <<community_read, oid_data, sorted_oids, ip_to_index, request, response, polled>>

mqttVars == <<mqtt_enabled, mqtt_running, client_connected, reconnect_interval,
              reconnect_task, sleeping_for, fail_streak, last_publish>>

scanVars == <<sweep_pc, network, hosts, sweep_next, pings>>

collVars == <<collect_call, collect_result>>

nameVars == <<named, display>>

swapVars == <<update_pc>>

lifeVars == <<app, stop_pc, running, cancel_req, task, transport>>

visitVars == <<collecting, todo, visit, updates>>

pingVars == <<sem, waiting, in_flight>>

pubVars == <<mqtt_configs, loop_running, pub_pc, pub_list, pub_items, pub_device, pub_oid, pub_log>>

brokerVars == <<broker_accepts, mqtt_stop_pc, publish_pc, late_calls>>

walkVars == <<walk_pc, walk_start, walk_at, walk_seen>>

\* the variables of the subsystems that the store, the agent, the MQTT service
\* and the ping sweep leave alone
restVars == <<collVars, nameVars, swapVars, lifeVars, visitVars, pingVars, pubVars, brokerVars, walkVars>>

vars == <<heap, machines, snapshots, hist, lastOp, lastMerge,
          community_read, oid_data, sorted_oids, ip_to_index, request, response, polled,
          mqtt_enabled, mqtt_running, client_connected, reconnect_interval,
          reconnect_task, sleeping_for, fail_streak, last_publish,
          sweep_pc, network, hosts, sweep_next, pings,
          collect_call, collect_result,
          named, display,
          update_pc,
          app, stop_pc, running, cancel_req, task, transport,
          collecting, todo, visit, updates,
          sem, waiting, in_flight,
          mqtt_configs, loop_running, pub_pc, pub_list, pub_items, pub_device, pub_oid, pub_log,
          broker_accepts, mqtt_stop_pc, publish_pc, late_calls,
          walk_pc, walk_start, walk_at, walk_seen>>

----------------------------------------------------------------------------
(* Bounds of the model *)

\* number of object references available to the store (live objects <= 2 per ip)
NumRefs == 5
\* timestamps (datetime.now() readings) range over 0..MaxTime
MaxTime == 1

----------------------------------------------------------------------------
(* Data model: src/src/core/models.py *)

IPs == {"10.0.0.5", "10.0.0.10"}

\* the ip the single-host specifications work on
StoreIPs == {"10.0.0.5"}

Methods == {"snmp", "ssh", "local", "arp", "ping", "static", "unknown"}

Times == 0..MaxTime

Refs == 1..NumRefs

NoRef == 0

\* the dataclass MachineInfo with its field defaults
MachineInfo(ip) ==
    [ ip                |-> ip,
      hostname          |-> "unknown",
      os_type           |-> "unknown",
      os_version        |-> "",
      uptime_seconds    |-> 0,
      last_seen         |-> 0,
      is_online         |-> TRUE,
      collection_method |-> "unknown",
      mac_address       |-> "",
      vendor            |-> "",
      snmp_active       |-> FALSE,
      dns_name          |-> "",
      mdns_name         |-> "",
      netbios_name      |-> "",
      snmp_sysname      |-> "" ]

\* a free heap cell
NoMachine == [MachineInfo("") EXCEPT !.collection_method = ""]

\* Python values held in records and in the agent's projection. An int n is
\* kept as hi * 2^31 + lo with 0 <= lo < 2^31, so that byte counters beyond the
\* signed 32-bit range can be told from the ones within it (a negative int has
\* hi < 0, and hi = -1 down to -2^31); a float is kept in
\* hundredths; a str is kept as it is.
PyInt(hi, lo) == [py |-> "int", hi |-> hi, lo |-> lo, s |-> ""]

Small(n) == PyInt(0, n)

PyStr(s) == [py |-> "str", hi |-> 0, lo |-> 0, s |-> s]

\* f"{x:.2f}" of the float kept as the hundredths h
Fmt2f(h) == [py |-> "str", hi |-> 0, lo |-> h, s |-> "%.2f"]

\* int(x) of the float kept as the hundredths h: the fraction is cut off,
\* towards zero
IntOfFloat(h) == IF h >= 0 THEN h \div 100 ELSE -((-h) \div 100)

\* the dataclass CPUMetrics (floats in hundredths), models.py:56-70
CPUMetrics(usage, cores) ==
    [ usage_percent |-> usage, core_count |-> cores, thread_count |-> cores,
      frequency_mhz |-> 0, temperature_celsius |-> 0,
      load_1m |-> 0, load_5m |-> 0, load_15m |-> 0, model_name |-> "" ]

\* the dataclass MemoryMetrics, models.py:83-95: byte counts are Python ints
MemoryMetrics(total, used, available, usage) ==
    [ total_bytes |-> total, used_bytes |-> used, available_bytes |-> available,
      usage_percent |-> usage ]

\* the dataclass StorageDevice, models.py:113-125
StorageDevice(device, total, used, free, usage) ==
    [ device |-> device, mount_point |-> device, fs_type |-> "",
      total_bytes |-> total, used_bytes |-> used, free_bytes |-> free,
      usage_percent |-> usage ]

\* the dataclass PowerMetrics, models.py:174-184: None is kept as 0
PowerMetrics ==
    [ cpu_power_watts |-> 0, battery_percent |-> 0, is_plugged_in |-> FALSE ]

\* the dataclass NetworkInterface, models.py:193-208
NetworkInterface(name) ==
    [ name |-> name, mac_address |-> "", ipv4_address |-> "",
      bytes_sent |-> 0, bytes_recv |-> 0 ]

\* the metric part of a HardwareSnapshot, models.py:228-237: cpu, memory,
\* storage.devices, power and network.interfaces
Metrics(cpu, memory, devices) ==
    [ cpu |-> cpu, memory |-> memory, devices |-> devices,
      power |-> PowerMetrics, interfaces |-> <<>> ]

NoMetrics == Metrics(CPUMetrics(0, 0), MemoryMetrics(Small(0), Small(0), Small(0), 0), <<>>)

\* the dataclass HardwareSnapshot: machine is a reference to a MachineInfo object
HardwareSnapshot(ref, metrics) == [machine |-> ref, metrics |-> metrics]

NoSnap == HardwareSnapshot(NoRef, NoMetrics)

----------------------------------------------------------------------------
(* Fleet store: src/src/core/data_manager.py *)

\* method_priority.get(method, 0), data_manager.py:102-104
method_priority(method) ==
    CASE method = "snmp"  -> 4
      [] method = "ssh"   -> 3
      [] method = "local" -> 2
      [] method = "arp"   -> 1
      [] OTHER            -> 0

\* the merge branch of add_machine without the snmp_active guard (a mutant)
MergeMachineOverwriteActive(existing, machine) ==
    [existing EXCEPT !.snmp_active = machine.snmp_active,
                     !.last_seen = machine.last_seen]

\* the merge branch of add_machine that takes any non-empty incoming hostname,
\* the sentinel and the ip included (a mutant)
MergeMachineAnyHostname(existing, machine) ==
    [existing EXCEPT !.hostname = IF machine.hostname # "" THEN machine.hostname ELSE @,
                     !.last_seen = machine.last_seen,
                     !.snmp_active = existing.snmp_active \/ machine.snmp_active,
                     !.collection_method =
                         IF method_priority(machine.collection_method)
                                > method_priority(existing.collection_method)
                         THEN machine.collection_method ELSE @]

\* the merge branch of add_machine that always takes the incoming method (a mutant)
MergeMachineTakeMethod(existing, machine) ==
    [existing EXCEPT !.collection_method = machine.collection_method,
                     !.last_seen = machine.last_seen,
                     !.snmp_active = existing.snmp_active \/ machine.snmp_active]

\* the merge branch of add_machine, data_manager.py:61-106: the value of the
\* existing object after the field-by-field updates
MergeMachine(existing, machine) ==
    [existing EXCEPT
        !.hostname = IF machine.hostname # "" /\ machine.hostname # "unknown"
                        /\ machine.hostname # machine.ip
                     THEN machine.hostname ELSE @,
        !.os_type = IF machine.os_type # "" /\ machine.os_type # "unknown"
                    THEN machine.os_type ELSE @,
        !.os_version = IF machine.os_version # "" THEN machine.os_version ELSE @,
        !.uptime_seconds = IF machine.uptime_seconds > 0
                           THEN machine.uptime_seconds ELSE @,
        !.mac_address = IF machine.mac_address # "" THEN machine.mac_address ELSE @,
        !.vendor = IF machine.vendor # "" /\ machine.vendor # "Unknown"
                   THEN machine.vendor ELSE @,
        !.dns_name = IF machine.dns_name # "" THEN machine.dns_name ELSE @,
        !.mdns_name = IF machine.mdns_name # "" THEN machine.mdns_name ELSE @,
        !.netbios_name = IF machine.netbios_name # "" THEN machine.netbios_name ELSE @,
        !.is_online = IF machine.is_online THEN TRUE ELSE @,
        !.last_seen = machine.last_seen,
        !.snmp_active = IF existing.snmp_active THEN TRUE
                        ELSE IF machine.snmp_active THEN TRUE ELSE @,
        !.snmp_sysname = IF machine.snmp_sysname # "" THEN machine.snmp_sysname ELSE @,
        !.collection_method =
            IF method_priority(machine.collection_method)
                   > method_priority(existing.collection_method)
            THEN machine.collection_method ELSE @ ]

\* the merge of update_snapshot, data_manager.py:128-138: the value of
\* snapshot.machine after the fill-in from the existing record
SnapshotMerge(existing, machine) ==
    [machine EXCEPT
        !.mac_address = IF machine.mac_address # "" THEN @ ELSE existing.mac_address,
        !.vendor = IF machine.vendor # "" /\ machine.vendor # "Unknown"
                   THEN @ ELSE existing.vendor,
        !.hostname = IF machine.hostname # "" /\ machine.hostname # "unknown"
                     THEN @ ELSE existing.hostname,
        !.dns_name = IF machine.dns_name # "" THEN @ ELSE existing.dns_name,
        !.mdns_name = IF machine.mdns_name # "" THEN @ ELSE existing.mdns_name,
        !.netbios_name = IF machine.netbios_name # "" THEN @ ELSE existing.netbios_name ]

\* references the store can still reach
LiveRefs(ms, ss) ==
    ({ms[ip] : ip \in IPs} \cup {ss[ip].machine : ip \in IPs}) \ {NoRef}

\* a reference no live object uses: a newly constructed MachineInfo
NewRef(avoid) == CHOOSE r \in Refs : r \notin avoid /\ \A q \in Refs : q \notin avoid => r <= q

\* objects nothing references any more are dropped from the heap
Collect(h, ms, ss) == [r \in Refs |-> IF r \in LiveRefs(ms, ss) THEN h[r] ELSE NoMachine]

\* the stored MachineInfo of ip (NoMachine when the ip is unknown)
Stored(ip) == IF machines[ip] = NoRef THEN NoMachine ELSE heap[machines[ip]]

HasMachine(ip) == machines[ip] # NoRef

HasSnapshot(ip) == snapshots[ip] # NoSnap

\* the ladder as the specification words it: arp and ping share rank 1
SpecLadder(method) ==
    CASE method = "snmp"  -> 4
      [] method = "ssh"   -> 3
      [] method = "local" -> 2
      [] method = "arp"   -> 1
      [] method = "ping"  -> 1
      [] OTHER            -> 0

\* the ladder with ping ranked with the other methods, below arp
AmendedLadder(method) ==
    CASE method = "snmp"  -> 4
      [] method = "ssh"   -> 3
      [] method = "local" -> 2
      [] method = "arp"   -> 1
      [] OTHER            -> 0

\* history of an entry: whether only add_machine has touched it since it was
\* created, and the highest rank among the methods add_machine was given
NoHist == [addOnly |-> FALSE, maxAmended |-> 0, maxSpec |-> 0]

Max(a, b) == IF a >= b THEN a ELSE b

Min(a, b) == IF a <= b THEN a ELSE b

\* the record of the last operation: the operation, its ip, whether the ip
\* was known, the incoming and the previously stored method and snmp_active
Op(op, ip, machine) ==
    [ op |-> op, ip |-> ip, known |-> HasMachine(ip),
      inMethod |-> machine.collection_method, inActive |-> machine.snmp_active,
      preMethod |-> Stored(ip).collection_method, preActive |-> Stored(ip).snmp_active ]

NoOp == [ op |-> "none", ip |-> "", known |-> FALSE, inMethod |-> "", inActive |-> FALSE,
          preMethod |-> "", preActive |-> FALSE ]

\* the hostname and last_seen an add_machine call brought and met
Merge(ip, machine) ==
    [ inHostname |-> machine.hostname, inLastSeen |-> machine.last_seen,
      preHostname |-> Stored(ip).hostname, preLastSeen |-> Stored(ip).last_seen ]

NoMerge == [ inHostname |-> "", inLastSeen |-> 0, preHostname |-> "", preLastSeen |-> 0 ]

\* DataManager.add_machine, data_manager.py:56-111
add_machine(machine) ==
    LET ip == machine.ip IN
    /\ IF HasMachine(ip)
       THEN /\ heap' = [heap EXCEPT ![machines[ip]] = MergeMachine(@, machine)]
            /\ machines' = machines
            /\ hist' = [hist EXCEPT ![ip] =
                  [@ EXCEPT !.maxAmended = Max(@, AmendedLadder(machine.collection_method)),
                            !.maxSpec = Max(@, SpecLadder(machine.collection_method))]]
       ELSE LET r == NewRef(LiveRefs(machines, snapshots)) IN
            /\ heap' = [heap EXCEPT ![r] = machine]
            /\ machines' = [machines EXCEPT ![ip] = r]
            /\ hist' = [hist EXCEPT ![ip] =
                  [addOnly |-> TRUE,
                   maxAmended |-> AmendedLadder(machine.collection_method),
                   maxSpec |-> SpecLadder(machine.collection_method)]]
    /\ lastOp' = Op("add_machine", ip, machine)
    /\ UNCHANGED snapshots
    /\ UNCHANGED agentVars
    /\ UNCHANGED mqttVars
    /\ UNCHANGED scanVars
    /\ UNCHANGED restVars

\* remove_machine that leaves the snapshot of the ip in place (a mutant)
RemoveMachineKeepSnapshot(ip) ==
    /\ machines' = [machines EXCEPT ![ip] = NoRef]
    /\ UNCHANGED <<snapshots, heap>>
    /\ hist' = [hist EXCEPT ![ip] = NoHist]
    /\ lastOp' = Op("remove_machine", ip, NoMachine)
    /\ UNCHANGED agentVars
    /\ UNCHANGED mqttVars
    /\ UNCHANGED scanVars
    /\ UNCHANGED restVars
    /\ UNCHANGED lastMerge

\* DataManager.remove_machine, data_manager.py:113-120
remove_machine(ip) ==
    /\ machines' = [machines EXCEPT ![ip] = NoRef]
    /\ snapshots' = [snapshots EXCEPT ![ip] = NoSnap]
    /\ heap' = Collect(heap, machines', snapshots')
    /\ hist' = [hist EXCEPT ![ip] = NoHist]
    /\ lastOp' = Op("remove_machine", ip, NoMachine)
    /\ UNCHANGED agentVars
    /\ UNCHANGED mqttVars
    /\ UNCHANGED scanVars
    /\ UNCHANGED restVars
    /\ UNCHANGED lastMerge

\* what DataManager.update_snapshot does to the store, data_manager.py:122-142;
\* the snapshot arrives with a newly constructed MachineInfo object (reference r)
update_snapshot_store(machine, metrics) ==
    LET ip == machine.ip
        r  == NewRef(LiveRefs(machines, snapshots))
        m  == IF HasMachine(ip) THEN SnapshotMerge(Stored(ip), machine) ELSE machine
    IN
    /\ snapshots' = [snapshots EXCEPT ![ip] = HardwareSnapshot(r, metrics)]
    /\ machines' = [machines EXCEPT ![ip] = r]
    /\ heap' = Collect([heap EXCEPT ![r] = m], machines', snapshots')
    /\ hist' = [hist EXCEPT ![ip] = [@ EXCEPT !.addOnly = FALSE]]
    /\ lastOp' = Op("update_snapshot", ip, machine)
    /\ UNCHANGED lastMerge

\* update_snapshot storing a copy of the merged machine in the registry (a mutant)
UpdateSnapshotCopy(machine, metrics) ==
    LET ip == machine.ip
        r  == NewRef(LiveRefs(machines, snapshots))
        c  == NewRef(LiveRefs(machines, snapshots) \cup {r})
        m  == IF HasMachine(ip) THEN SnapshotMerge(Stored(ip), machine) ELSE machine
    IN
    /\ snapshots' = [snapshots EXCEPT ![ip] = HardwareSnapshot(r, metrics)]
    /\ machines' = [machines EXCEPT ![ip] = c]
    /\ heap' = Collect([heap EXCEPT ![r] = m, ![c] = m], machines', snapshots')
    /\ hist' = [hist EXCEPT ![ip] = [@ EXCEPT !.addOnly = FALSE]]
    /\ lastOp' = Op("update_snapshot", ip, machine)
    /\ UNCHANGED agentVars
    /\ UNCHANGED mqttVars
    /\ UNCHANGED scanVars
    /\ UNCHANGED restVars
    /\ UNCHANGED lastMerge

\* DataManager.update_snapshot, data_manager.py:122-142; the snapshot arrives
\* with a newly constructed MachineInfo object (reference r)
update_snapshot(machine, metrics) ==
    /\ update_snapshot_store(machine, metrics)
    /\ UNCHANGED agentVars
    /\ UNCHANGED mqttVars
    /\ UNCHANGED scanVars
    /\ UNCHANGED restVars

\* update_snapshots that stores the snapshot and leaves the registry of
\* machines alone (a mutant)
UpdateSnapshotsOnly(machine, metrics) ==
    LET ip == machine.ip
        r  == NewRef(LiveRefs(machines, snapshots))
    IN
    /\ snapshots' = [snapshots EXCEPT ![ip] = HardwareSnapshot(r, metrics)]
    /\ heap' = Collect([heap EXCEPT ![r] = machine], machines, snapshots')
    /\ hist' = [hist EXCEPT ![ip] = [@ EXCEPT !.addOnly = FALSE]]
    /\ lastOp' = Op("update_snapshots", ip, machine)
    /\ UNCHANGED machines
    /\ UNCHANGED agentVars
    /\ UNCHANGED mqttVars
    /\ UNCHANGED scanVars
    /\ UNCHANGED restVars
    /\ UNCHANGED lastMerge

\* DataManager.update_snapshots, data_manager.py:144-151, for a list of one
\* snapshot: no merge with the existing record
update_snapshots(machine, metrics) ==
    LET ip == machine.ip
        r  == NewRef(LiveRefs(machines, snapshots))
    IN
    /\ snapshots' = [snapshots EXCEPT ![ip] = HardwareSnapshot(r, metrics)]
    /\ machines' = [machines EXCEPT ![ip] = r]
    /\ heap' = Collect([heap EXCEPT ![r] = machine], machines', snapshots')
    /\ hist' = [hist EXCEPT ![ip] = [@ EXCEPT !.addOnly = FALSE]]
    /\ lastOp' = Op("update_snapshots", ip, machine)
    /\ UNCHANGED agentVars
    /\ UNCHANGED mqttVars
    /\ UNCHANGED scanVars
    /\ UNCHANGED restVars
    /\ UNCHANGED lastMerge

\* DataManager.clear, data_manager.py:199-203
clear ==
    /\ machines' = [ip \in IPs |-> NoRef]
    /\ snapshots' = [ip \in IPs |-> NoSnap]
    /\ heap' = [r \in Refs |-> NoMachine]
    /\ hist' = [ip \in IPs |-> NoHist]
    /\ lastOp' = [NoOp EXCEPT !.op = "clear"]
    /\ UNCHANGED agentVars
    /\ UNCHANGED mqttVars
    /\ UNCHANGED scanVars
    /\ UNCHANGED restVars
    /\ UNCHANGED lastMerge

----------------------------------------------------------------------------
(* OIDs: src/src/agent/mib_definitions.py. A dotted OID string is kept as the *)
(* sequence of its components.                                               *)

\* HW_AGGREGATOR, mib_definitions.py:84-87
HW_AGGREGATOR == <<1, 3, 6, 1, 4, 1, 99999, 1>>

AGENT_VERSION == HW_AGGREGATOR \o <<1, 1, 0>>

AGENT_UPTIME == HW_AGGREGATOR \o <<1, 2, 0>>

MACHINE_COUNT == HW_AGGREGATOR \o <<1, 3, 0>>

\* column c of a table entry, mib_definitions.py:96-142
MACHINE_ENTRY(c) == HW_AGGREGATOR \o <<2, 1, c>>

CPU_ENTRY(c) == HW_AGGREGATOR \o <<3, 1, c>>

MEMORY_ENTRY(c) == HW_AGGREGATOR \o <<4, 1, c>>

STORAGE_ENTRY(c) == HW_AGGREGATOR \o <<5, 1, c>>

POWER_ENTRY(c) == HW_AGGREGATOR \o <<6, 1, c>>

NETWORK_ENTRY(c) == HW_AGGREGATOR \o <<7, 1, c>>

\* Python's tuple order on tuples of ints: a < b
TupleLess(a, b) ==
    \/ \E i \in 1..Min(Len(a), Len(b)) :
          /\ a[i] < b[i]
          /\ \A j \in 1..(i - 1) : a[j] = b[j]
    \/ /\ Len(a) < Len(b)
       /\ \A j \in 1..Len(a) : a[j] = b[j]

\* the characters of an ip string, as ASCII codes
IpChars(ip) ==
    CASE ip = "10.0.0.5"  -> <<49, 48, 46, 48, 46, 48, 46, 53>>
      [] ip = "10.0.0.10" -> <<49, 48, 46, 48, 46, 48, 46, 49, 48>>
      [] OTHER            -> <<>>

\* Python's str order, used by sorted(snapshots.keys())
StrLess(a, b) == TupleLess(IpChars(a), IpChars(b))

----------------------------------------------------------------------------
(* SNMP agent: src/src/agent/snmp_agent.py, class SimpleSNMPAgent *)

\* the largest signed 32-bit integer, snmp_agent.py:498
Int32Max == 2147483647

\* the Python int n of small magnitude, negative or not
PyIntOf(n) == IF n >= 0 THEN Small(n) ELSE PyInt(-1, Int32Max + (n + 1))

\* value > n for a Python int value and a literal n < 2^31
PyIntGreater(value, n) == value.hi > 0 \/ (value.hi = 0 /\ value.lo > n)

\* _to_snmp_value that sends every int out as Integer32 (a mutant)
ToSnmpValueAllInteger32(value) ==
    IF value.py = "int" THEN [type |-> "Integer32", v |-> value]
    ELSE [type |-> "OctetString", v |-> value]

\* SimpleSNMPAgent._to_snmp_value, snmp_agent.py:495-501
_to_snmp_value(value) ==
    IF value.py = "int"
    THEN IF PyIntGreater(value, Int32Max)
         THEN [type |-> "Counter64", v |-> value]
         ELSE [type |-> "Integer32", v |-> value]
    ELSE [type |-> "OctetString", v |-> value]

\* rfc1905.noSuchInstance and rfc1905.endOfMibView
noSuchInstance == [type |-> "noSuchInstance", v |-> PyStr("")]

endOfMibView == [type |-> "endOfMibView", v |-> PyStr("")]

VarBind(oid, value) == [oid |-> oid, value |-> value]

\* the index mapping of _update_data, snmp_agent.py:417-418:
\* enumerate(sorted(snapshots.keys()), start=1)
IndexOf(keys, ip) == 1 + Cardinality({j \in keys : StrLess(j, ip)})

\* _add_machine_oids, snmp_agent.py:437-479: the (OID, value) pairs of one machine
MachineOids(idx, m, snap) ==
    LET c   == snap.metrics.cpu
        mem == snap.metrics.memory
        dev == snap.metrics.devices
    IN
    { <<MACHINE_ENTRY(1) \o <<idx>>, Small(idx)>>,
      <<MACHINE_ENTRY(2) \o <<idx>>, PyStr(m.ip)>>,
      <<MACHINE_ENTRY(3) \o <<idx>>, PyStr(m.hostname)>>,
      <<MACHINE_ENTRY(4) \o <<idx>>, PyStr(m.os_type)>>,
      <<MACHINE_ENTRY(5) \o <<idx>>, Small(m.uptime_seconds * 100)>>,
      <<MACHINE_ENTRY(6) \o <<idx>>, Small(IF m.is_online THEN 1 ELSE 2)>>,
      <<CPU_ENTRY(1) \o <<idx>>, Small(idx)>>,
      <<CPU_ENTRY(2) \o <<idx>>, Small(IntOfFloat(c.usage_percent))>>,
      <<CPU_ENTRY(3) \o <<idx>>, Small(c.core_count)>>,
      <<CPU_ENTRY(4) \o <<idx>>, Small(c.thread_count)>>,
      <<CPU_ENTRY(5) \o <<idx>>, Small(IntOfFloat(c.frequency_mhz))>>,
      <<CPU_ENTRY(6) \o <<idx>>, PyIntOf(IntOfFloat(c.temperature_celsius))>>,
      <<CPU_ENTRY(7) \o <<idx>>, Fmt2f(c.load_1m)>>,
      <<CPU_ENTRY(8) \o <<idx>>, Fmt2f(c.load_5m)>>,
      <<CPU_ENTRY(9) \o <<idx>>, Fmt2f(c.load_15m)>>,
      <<CPU_ENTRY(10) \o <<idx>>, PyStr(c.model_name)>>,
      <<MEMORY_ENTRY(1) \o <<idx>>, Small(idx)>>,
      <<MEMORY_ENTRY(2) \o <<idx>>, mem.total_bytes>>,
      <<MEMORY_ENTRY(3) \o <<idx>>, mem.used_bytes>>,
      <<MEMORY_ENTRY(4) \o <<idx>>, mem.available_bytes>>,
      <<MEMORY_ENTRY(5) \o <<idx>>, Small(IntOfFloat(mem.usage_percent))>> }
    \cup UNION { { <<STORAGE_ENTRY(3) \o <<idx, d>>, PyStr(dev[d].device)>>,
                   <<STORAGE_ENTRY(4) \o <<idx, d>>, PyStr(dev[d].mount_point)>>,
                   <<STORAGE_ENTRY(5) \o <<idx, d>>, PyStr(dev[d].fs_type)>>,
                   <<STORAGE_ENTRY(6) \o <<idx, d>>, dev[d].total_bytes>>,
                   <<STORAGE_ENTRY(7) \o <<idx, d>>, dev[d].used_bytes>>,
                   <<STORAGE_ENTRY(8) \o <<idx, d>>, dev[d].free_bytes>>,
                   <<STORAGE_ENTRY(9) \o <<idx, d>>, Small(IntOfFloat(dev[d].usage_percent))>> }
                 : d \in 1..Len(dev) }

\* the (OID, value) pairs _update_data writes, snmp_agent.py:414-429; the agent
\* uptime is read from the clock and kept as 0 here
ProjectedPairs ==
    LET keys == {ip \in IPs : HasSnapshot(ip)} IN
    { <<AGENT_VERSION, PyStr("1.0.0")>>,
      <<AGENT_UPTIME, Small(0)>>,
      <<MACHINE_COUNT, Small(Cardinality(keys))>> }
    \cup UNION { MachineOids(IndexOf(keys, ip), heap[snapshots[ip].machine], snapshots[ip])
                 : ip \in keys }

\* the decimal digits of n, as ASCII codes
RECURSIVE Digits(_)
Digits(n) == IF n < 10 THEN <<48 + n>> ELSE Digits(n \div 10) \o <<48 + (n % 10)>>

\* the characters of a dotted OID string, as ASCII codes
RECURSIVE OidChars(_)
OidChars(oid) ==
    IF oid = <<>> THEN <<>>
    ELSE IF Len(oid) = 1 THEN Digits(oid[1])
    ELSE Digits(oid[1]) \o <<46>> \o OidChars(Tail(oid))

\* the pre-sort without its key, sorted(keys): the OIDs in the order of their
\* strings (a mutant)
RECURSIVE SortOidsAsStrings(_)
SortOidsAsStrings(keys) ==
    IF keys = {} THEN <<>>
    ELSE LET first == CHOOSE x \in keys :
                          \A y \in keys : x = y \/ TupleLess(OidChars(x), OidChars(y))
         IN <<first>> \o SortOidsAsStrings(keys \ {first})

\* the pre-sort of _update_data, snmp_agent.py:432-435:
\* sorted(keys, key=lambda x: tuple(int(p) for p in x.split('.')))
RECURSIVE SortOids(_)
SortOids(keys) ==
    IF keys = {} THEN <<>>
    ELSE LET first == CHOOSE x \in keys : \A y \in keys : x = y \/ TupleLess(x, y)
         IN <<first>> \o SortOids(keys \ {first})

\* SimpleSNMPAgent._update_data, snmp_agent.py:409-435
_update_data ==
    LET pairs == ProjectedPairs
        keys  == {p[1] : p \in pairs}
        snaps == {ip \in IPs : HasSnapshot(ip)}
    IN
    /\ oid_data' = [o \in keys |-> (CHOOSE p \in pairs : p[1] = o)[2]]
    /\ ip_to_index' = [ip \in snaps |-> IndexOf(snaps, ip)]
    /\ sorted_oids' = SortOids(keys)

\* "no next OID": the None of _get_next_oid
NoOid == <<>>

\* the loop of _get_next_oid from position i of _sorted_oids, snmp_agent.py:490-493
RECURSIVE FirstGreater(_, _)
FirstGreater(oid, i) ==
    IF i > Len(sorted_oids) THEN NoOid
    ELSE IF TupleLess(oid, sorted_oids[i]) THEN sorted_oids[i]
    ELSE FirstGreater(oid, i + 1)

\* _get_next_oid that also returns the requested OID itself (a mutant)
GetNextOidInclusive(oid) ==
    IF oid \in DOMAIN oid_data THEN oid ELSE FirstGreater(oid, 1)

\* SimpleSNMPAgent._get_next_oid, snmp_agent.py:487-493: the first candidate of
\* _sorted_oids, in list order, whose tuple is greater than the target's
_get_next_oid(oid) == FirstGreater(oid, 1)

\* the GET branch answering a falsy value as missing (a mutant)
GetBindTruthy(oid) ==
    IF oid \in DOMAIN oid_data /\ oid_data[oid] \notin {Small(0), PyStr("")}
    THEN VarBind(oid, _to_snmp_value(oid_data[oid]))
    ELSE VarBind(oid, noSuchInstance)

\* one var-bind of the GET branch, snmp_agent.py:536-542
GetBind(oid) ==
    IF oid \in DOMAIN oid_data
    THEN VarBind(oid, _to_snmp_value(oid_data[oid]))
    ELSE VarBind(oid, noSuchInstance)

\* the GETNEXT branch naming the requested OID in its binding, with the value
\* of the next one (a mutant)
GetNextBindEchoes(oid) ==
    LET next_oid == _get_next_oid(oid) IN
    IF next_oid # NoOid
    THEN VarBind(oid, _to_snmp_value(oid_data[next_oid]))
    ELSE VarBind(oid, endOfMibView)

\* one var-bind of the GETNEXT branch, snmp_agent.py:546-555 (and 563-573)
GetNextBind(oid) ==
    LET next_oid == _get_next_oid(oid) IN
    IF next_oid # NoOid
    THEN VarBind(next_oid, _to_snmp_value(oid_data[next_oid]))
    ELSE VarBind(oid, endOfMibView)

\* the repeater loop that never advances `cur`: every step is taken from the
\* starting OID (a mutant)
RECURSIVE RepeaterFromStart(_, _)
RepeaterFromStart(cur, left) ==
    IF left = 0 THEN <<>>
    ELSE LET next_oid == _get_next_oid(cur) IN
         IF next_oid # NoOid
         THEN <<VarBind(next_oid, _to_snmp_value(oid_data[next_oid]))>>
                  \o RepeaterFromStart(cur, left - 1)
         ELSE <<VarBind(cur, endOfMibView)>>

\* the repeater loop without the break: the stream is padded to max_rep (a mutant)
RECURSIVE RepeaterPadded(_, _)
RepeaterPadded(cur, left) ==
    IF left = 0 THEN <<>>
    ELSE LET next_oid == _get_next_oid(cur) IN
         IF next_oid # NoOid
         THEN <<VarBind(next_oid, _to_snmp_value(oid_data[next_oid]))>>
                  \o RepeaterPadded(next_oid, left - 1)
         ELSE <<VarBind(cur, endOfMibView)>> \o RepeaterPadded(cur, left - 1)

\* the inner loop of the GETBULK repeaters, snmp_agent.py:579-592: up to `left`
\* successive next-OID steps from cur, stopping at the first miss
RECURSIVE Repeater(_, _)
Repeater(cur, left) ==
    IF left = 0 THEN <<>>
    ELSE LET next_oid == _get_next_oid(cur) IN
         IF next_oid # NoOid
         THEN <<VarBind(next_oid, _to_snmp_value(oid_data[next_oid]))>>
                  \o Repeater(next_oid, left - 1)
         ELSE <<VarBind(cur, endOfMibView)>>

\* the concatenation of the sequences f[1], ..., f[n]
RECURSIVE Concat(_, _)
Concat(f, n) == IF n = 0 THEN <<>> ELSE Concat(f, n - 1) \o f[n]

\* the GETBULK branch, snmp_agent.py:558-592
GetBulkBinds(oids, non_rep, max_rep) ==
    LET n == Len(oids)
        heads == [i \in 1..Min(non_rep, n) |-> GetNextBind(oids[i])]
        tails == [i \in 1..n |-> IF i > non_rep THEN Repeater(oids[i], max_rep) ELSE <<>>]
    IN heads \o Concat(tails, n)

Request(kind, community, request_id, oids, non_rep, max_rep) ==
    [ kind |-> kind, community |-> community, request_id |-> request_id, oids |-> oids,
      non_repeaters |-> non_rep, max_repetitions |-> max_rep ]

NoRequest == Request("none", "", 0, <<>>, 0, 0)

\* the response PDU left with the request-id that setDefaults gave it (a mutant)
ResponseDefaultRequestId(request_id, var_binds) ==
    [ sent |-> TRUE, request_id |-> 0, error_status |-> 0, error_index |-> 0,
      var_binds |-> var_binds ]

\* the encoded GetResponsePDU, snmp_agent.py:523-530 and 594-596
Response(request_id, var_binds) ==
    [ sent |-> TRUE, request_id |-> request_id, error_status |-> 0, error_index |-> 0,
      var_binds |-> var_binds ]

\* handle_snmp_message returned None: nothing is sent
NoResponse ==
    [ sent |-> FALSE, request_id |-> 0, error_status |-> 0, error_index |-> 0,
      var_binds |-> <<>> ]

\* the community check comparing with the configured read-community (a mutant
\* of the check as the code has it)
CommunityAcceptedConfigured(community) == community = community_read

\* the community check, snmp_agent.py:516-518
CommunityAccepted(community) == community = "public"

\* the kinds of datagram on which a call inside the try block of
\* handle_snmp_message raises: the bytes do not decode ("malformed"), or they
\* decode and a later call of the dispatch raises ("dispatch_error")
FailingKinds == {"malformed", "dispatch_error"}

\* handle_snmp_message answering a failed dispatch with an empty response
\* instead of dropping the datagram (a mutant)
HandleSnmpMessageErrorReply(req) ==
    IF req.kind = "malformed" THEN NoResponse
    ELSE IF req.kind = "dispatch_error" THEN Response(req.request_id, <<>>)
    ELSE IF ~CommunityAccepted(req.community) THEN NoResponse
    ELSE IF req.kind = "get"
         THEN Response(req.request_id, [i \in 1..Len(req.oids) |-> GetBind(req.oids[i])])
    ELSE IF req.kind = "getnext"
         THEN Response(req.request_id, [i \in 1..Len(req.oids) |-> GetNextBind(req.oids[i])])
    ELSE IF req.kind = "getbulk"
         THEN Response(req.request_id,
                       GetBulkBinds(req.oids, req.non_repeaters, req.max_repetitions))
    ELSE Response(req.request_id, <<>>)

\* SimpleSNMPAgent.handle_snmp_message, snmp_agent.py:503-600: the value
\* returned; an exception raised in the try block is caught at 598-600
handle_snmp_message(req) ==
    IF req.kind \in FailingKinds THEN NoResponse
    ELSE IF ~CommunityAccepted(req.community) THEN NoResponse
    ELSE IF req.kind = "get"
         THEN Response(req.request_id, [i \in 1..Len(req.oids) |-> GetBind(req.oids[i])])
    ELSE IF req.kind = "getnext"
         THEN Response(req.request_id, [i \in 1..Len(req.oids) |-> GetNextBind(req.oids[i])])
    ELSE IF req.kind = "getbulk"
         THEN Response(req.request_id,
                       GetBulkBinds(req.oids, req.non_repeaters, req.max_repetitions))
    ELSE Response(req.request_id, <<>>)

\* datagram_received servicing a SetRequest: the named OIDs that are projected
\* are overwritten (a mutant)
DatagramReceivedWritable(req) ==
    /\ request = NoRequest
    /\ request' = req
    /\ response' = handle_snmp_message(req)
    /\ oid_data' = IF req.kind = "set" /\ CommunityAccepted(req.community)
                   THEN [o \in DOMAIN oid_data |->
                            IF \E i \in 1..Len(req.oids) : req.oids[i] = o
                            THEN PyStr("written") ELSE oid_data[o]]
                   ELSE oid_data
    /\ UNCHANGED <<community_read, sorted_oids, ip_to_index, polled>>
    /\ UNCHANGED storeVars
    /\ UNCHANGED mqttVars
    /\ UNCHANGED scanVars
    /\ UNCHANGED restVars

\* _SNMPProtocol.datagram_received, snmp_agent.py:346-352, first half: the
\* datagram is handed to handle_snmp_message
datagram_received(req) ==
    /\ request = NoRequest
    /\ request' = req
    /\ response' = handle_snmp_message(req)
    /\ UNCHANGED <<community_read, oid_data, sorted_oids, ip_to_index, polled>>
    /\ UNCHANGED storeVars
    /\ UNCHANGED mqttVars
    /\ UNCHANGED scanVars
    /\ UNCHANGED restVars

\* _SNMPProtocol.datagram_received, second half: the response, if any, goes to
\* transport.sendto and the handler returns
datagram_done ==
    /\ request # NoRequest
    /\ request' = NoRequest
    /\ response' = NoResponse
    /\ UNCHANGED <<community_read, oid_data, sorted_oids, ip_to_index, polled>>
    /\ UNCHANGED storeVars
    /\ UNCHANGED mqttVars
    /\ UNCHANGED scanVars
    /\ UNCHANGED restVars

----------------------------------------------------------------------------
(* Initial values of the variables of the collectors and of the name     *)
(* resolution                                                            *)

\* no collect_all call was made
NoCall == [collector |-> "none", connect |-> "ok", out |-> <<>>]

NoResult == [kind |-> "none", errors |-> {}, defaults |-> {}]

CollInit ==
    /\ collect_call = NoCall
    /\ collect_result = NoResult

\* display_name was not read
NameInit ==
    /\ named = NoMachine
    /\ display = ""

\* no rebuild of the projection is under way
SwapInit == update_pc = "idle"

\* the periodic tasks
Tasks == {"discovery", "collection", "update", "mqtt_publish"}

\* a task that was not created
NoTask == [st |-> "absent", item |-> 0]

\* no program was started
LifeInit ==
    /\ app = "none"
    /\ stop_pc = "running"
    /\ running = [app |-> FALSE, agent |-> FALSE]
    /\ cancel_req = {}
    /\ task = [t \in Tasks |-> NoTask]
    /\ transport = [udp |-> "none", mqtt |-> "none"]

\* no host visited yet
NoVisit == [ip |-> "", snmp_on |-> FALSE, ssh_on |-> FALSE, first |-> "none",
            tried |-> <<>>, stored |-> "none"]

\* no collection cycle is running
VisitInit ==
    /\ collecting = FALSE
    /\ todo = {}
    /\ visit = NoVisit
    /\ updates = [ip \in IPs |-> 0]

\* the scans that can run at the same time: the one of the discovery loop
\* (api.py:272) and one started by POST /api/scan (api.py:604-620)
Scans == {"discovery", "manual"}

\* no scan is sweeping
PingInit ==
    /\ sem = [s \in Scans |-> 0]
    /\ waiting = [s \in Scans |-> 0]
    /\ in_flight = [s \in Scans |-> 0]

\* a device configuration as save_mqtt_device_config stores it, api.py:796-806;
\* custom_oids is kept as the number of its entries
MqttDeviceConfig(enabled, cpu, memory, storage, n) ==
    [ present |-> TRUE, enabled |-> enabled, publish_cpu |-> cpu,
      publish_memory |-> memory, publish_storage |-> storage, custom_oids |-> n ]

\* no configuration saved for the device
NoConfig == [MqttDeviceConfig(FALSE, FALSE, FALSE, FALSE, 0) EXCEPT !.present = FALSE]

\* no device in hand
NoDevice == [ip |-> "", config |-> NoConfig, snapshot |-> FALSE]

\* the web program was not started: no configuration, no publishing task
PubInit ==
    /\ mqtt_configs = [ip \in IPs |-> NoConfig]
    /\ loop_running = FALSE
    /\ pub_pc = "none"
    /\ pub_list = <<>>
    /\ pub_items = <<>>
    /\ pub_device = NoDevice
    /\ pub_oid = 1
    /\ pub_log = {}

\* the broker refuses connections; stop was not called and no publish is in
\* flight
BrokerInit ==
    /\ broker_accepts = FALSE
    /\ mqtt_stop_pc = "none"
    /\ publish_pc = "none"
    /\ late_calls = FALSE

\* no walk was begun
WalkInit ==
    /\ walk_pc = "none"
    /\ walk_start = <<>>
    /\ walk_at = <<>>
    /\ walk_seen = <<>>

RestInit == CollInit /\ NameInit /\ SwapInit /\ LifeInit /\ VisitInit /\ PingInit /\ PubInit /\ BrokerInit /\ WalkInit

----------------------------------------------------------------------------
(* Discovery ping sweep: src/src/discovery/network_scanner.py, ping_sweep.  *)
(* A subnet is kept as its number of host bits h (a /p network of IPv4 has  *)
(* h = 32 - p) and an address as its offset in the subnet.                  *)

\* largest number of host bits of a swept subnet
MaxHostBits == 11

\* the size above which a sweep is limited, network_scanner.py:180
sweep_limit == 1024

\* the number of hosts a limited sweep keeps, network_scanner.py:182
sweep_cap == 256

\* no sweep is running
ScanInit ==
    /\ sweep_pc = "idle"
    /\ network = 0
    /\ hosts = <<>>
    /\ sweep_next = 1
    /\ pings = <<>>

\* ipaddress.ip_network(subnet).num_addresses
num_addresses(h) == 2 ^ h

\* list(network.hosts()): every address but the network and the broadcast
\* address; both addresses of a /31; the address of a /32
NetworkHosts(h) ==
    IF h = 0 THEN <<0>>
    ELSE IF h = 1 THEN <<0, 1>>
    ELSE [i \in 1..(num_addresses(h) - 2) |-> i]

\* list[:n]
Slice(list, n) == SubSeq(list, 1, Min(n, Len(list)))

\* the host list of ping_sweep without the limit (a mutant)
SweepHostsUnlimited(h) == NetworkHosts(h)

\* the host list of ping_sweep, network_scanner.py:179-184
SweepHosts(h) ==
    IF num_addresses(h) > sweep_limit
    THEN Slice(NetworkHosts(h), sweep_cap)
    ELSE NetworkHosts(h)

\* ping_sweep, network_scanner.py:163-187: the subnet is parsed and the host
\* list built
ping_sweep(h) ==
    /\ sweep_pc \in {"idle", "done"}
    /\ sweep_pc' = "pinging"
    /\ network' = h
    /\ hosts' = SweepHosts(h)
    /\ sweep_next' = 1
    /\ pings' = [a \in 0..(num_addresses(h) - 1) |-> 0]

\* ping_sweep, network_scanner.py:192-199 and 203-220: the task of the next
\* host runs its one ping subprocess
ping_with_semaphore ==
    /\ sweep_pc = "pinging"
    /\ sweep_next <= Len(hosts)
    /\ pings' = [pings EXCEPT ![hosts[sweep_next]] = @ + 1]
    /\ sweep_next' = sweep_next + 1
    /\ UNCHANGED <<sweep_pc, network, hosts>>

\* ping_sweep, network_scanner.py:199-201: gather returned, the responders
\* are handed back
sweep_return ==
    /\ sweep_pc = "pinging"
    /\ sweep_next > Len(hosts)
    /\ sweep_pc' = "done"
    /\ UNCHANGED <<network, hosts, sweep_next, pings>>

----------------------------------------------------------------------------
(* MQTT rebroadcast: src/src/web/api.py, _mqtt_oid_publishing_loop *)

\* _get_oid returned None (snmp_collector.py:121-147)
NoValue == [py |-> "None", hi |-> 0, lo |-> 0, s |-> ""]

NoPoll == [value |-> NoValue, rebuilt |-> FALSE, call |-> "none"]

\* device_ip of the MQTT device configuration
DeviceIp == "10.0.0.10"

\* getattr(snapshot, 'custom_metrics', {}): HardwareSnapshot, models.py:228-240,
\* has no such field
custom_metrics(snapshot) == [o \in {} |-> NoValue]

\* rebroadcast_oid of the configured custom OID: 1.3.6.1.4.1.99999.1.100.1
RebroadcastOid == HW_AGGREGATOR \o <<100, 1>>

\* the custom OID entry of the device's MQTT configuration, api.py:334 and 385-388
RebroadcastConfig ==
    [ oid |-> <<1, 3, 6, 1, 4, 1, 8072, 1, 3, 2, 4, 1, 2, 5>>, name |-> "temperature",
      snmp_rebroadcast |-> TRUE, rebroadcast_oid |-> RebroadcastOid ]

\* the attributes of DataManager, data_manager.py:29-205
DataManagerAttributes ==
    { "machines", "snapshots", "get_snapshot", "get_machine", "add_machine",
      "remove_machine", "update_snapshot", "update_snapshots", "get_machines_by_status",
      "get_stale_machines", "get_aggregated_stats", "clear" }

\* what the remote device answers for the custom OID
PolledValues == {Small(42), Small(0), PyStr("21.5")}

\* the call data_manager.update_custom_metric(device_ip, rebroadcast_oid, value)
\* of api.py:418: the attribute lookup on DataManager
update_custom_metric_call ==
    IF "update_custom_metric" \in DataManagerAttributes THEN "returned" ELSE "AttributeError"

\* one pass of _mqtt_oid_publishing_loop over the custom OIDs of a device,
\* api.py:384-421: the OID is polled; a value is published (publish returns
\* False while the MQTT service is not running) and, the entry being marked
\* for rebroadcast, data_manager.update_custom_metric is called: DataManager
\* has no such attribute, the AttributeError is caught at api.py:420 and the
\* store is left as it was
publish_custom_oids(value) ==
    /\ polled' = IF value = NoValue THEN polled
                 ELSE [ value |-> value, rebuilt |-> FALSE,
                        call |-> IF /\ RebroadcastConfig.snmp_rebroadcast
                                    /\ RebroadcastConfig.rebroadcast_oid # <<>>
                                 THEN update_custom_metric_call ELSE "none" ]
    /\ UNCHANGED <<community_read, oid_data, sorted_oids, ip_to_index, request, response>>
    /\ UNCHANGED storeVars
    /\ UNCHANGED mqttVars
    /\ UNCHANGED scanVars
    /\ UNCHANGED restVars

----------------------------------------------------------------------------
(* MQTT publishing service: src/src/services/mqtt_broker.py *)

\* the initial reconnect interval, in seconds, mqtt_broker.py:20 and 33
initial_reconnect_interval == 5

\* MQTTBrokerService._max_reconnect_interval, mqtt_broker.py:21
max_reconnect_interval == 300

\* most failed reconnect attempts in a row that are followed
MaxFails == 8

\* MQTTBrokerService.__init__, mqtt_broker.py:14-21, with MQTT switched off
MqttInit ==
    /\ mqtt_enabled = FALSE
    /\ mqtt_running = FALSE
    /\ client_connected = FALSE
    /\ reconnect_interval = initial_reconnect_interval
    /\ reconnect_task = "none"
    /\ sleeping_for = 0
    /\ fail_streak = 0
    /\ last_publish = "none"

\* the backoff step without the cap (a mutant)
BackoffUncapped(interval) == interval * 2

\* the backoff step of _reconnect_loop, mqtt_broker.py:63-66
Backoff(interval) == Min(interval * 2, max_reconnect_interval)

\* MQTTBrokerService._connect, mqtt_broker.py:27-39: the flag and the interval
\* after an attempt that succeeded (ok) or raised
_connect(ok) ==
    /\ client_connected' = ok
    /\ reconnect_interval' = IF ok THEN initial_reconnect_interval ELSE reconnect_interval

\* MQTTBrokerService.start, mqtt_broker.py:41-51
start(ok) ==
    /\ reconnect_task = "none"
    /\ ~mqtt_running
    /\ IF ~mqtt_enabled
       THEN /\ reconnect_task' = "disabled"
            /\ UNCHANGED <<mqtt_running, client_connected, reconnect_interval>>
       ELSE /\ mqtt_running' = TRUE
            /\ _connect(ok)
            /\ reconnect_task' = "loop"
    /\ UNCHANGED <<mqtt_enabled, sleeping_for, fail_streak, last_publish>>

\* _reconnect_loop, mqtt_broker.py:55-56: the loop test and the start of the sleep
reconnect_loop_test ==
    /\ reconnect_task = "loop"
    /\ IF mqtt_running
       THEN /\ reconnect_task' = "sleeping"
            /\ sleeping_for' = reconnect_interval
       ELSE /\ reconnect_task' = "done"
            /\ UNCHANGED sleeping_for
    /\ UNCHANGED <<mqtt_enabled, mqtt_running, client_connected, reconnect_interval,
                   fail_streak, last_publish>>

\* the sleep is over and no attempt is made (a mutant)
ReconnectWakeSkips ==
    /\ reconnect_task = "sleeping"
    /\ reconnect_task' = "loop"
    /\ UNCHANGED <<mqtt_enabled, mqtt_running, client_connected, reconnect_interval,
                   sleeping_for, fail_streak, last_publish>>

\* _reconnect_loop, mqtt_broker.py:56-60: the sleep is over; an attempt begins
\* when the service runs and is disconnected
reconnect_wake ==
    /\ reconnect_task = "sleeping"
    /\ reconnect_task' = IF mqtt_running /\ ~client_connected THEN "connecting" ELSE "loop"
    /\ UNCHANGED <<mqtt_enabled, mqtt_running, client_connected, reconnect_interval,
                   sleeping_for, fail_streak, last_publish>>

\* _reconnect_loop, mqtt_broker.py:60-66: the attempt returns
reconnect_attempt(ok) ==
    /\ reconnect_task = "connecting"
    /\ IF ok
       THEN /\ _connect(TRUE)
            /\ fail_streak' = 0
       ELSE /\ fail_streak < MaxFails
            /\ client_connected' = FALSE
            /\ reconnect_interval' = Backoff(reconnect_interval)
            /\ fail_streak' = fail_streak + 1
    /\ reconnect_task' = "loop"
    /\ UNCHANGED <<mqtt_enabled, mqtt_running, sleeping_for, last_publish>>

\* publish that reports a broker error without marking the connection lost
\* (a mutant)
PublishKeepsConnection(ok) ==
    /\ last_publish' = IF ~mqtt_running \/ ~client_connected THEN "refused"
                       ELSE IF ok THEN "sent" ELSE "failed"
    /\ UNCHANGED <<mqtt_enabled, mqtt_running, client_connected, reconnect_interval,
                   reconnect_task, sleeping_for, fail_streak>>

\* MQTTBrokerService.publish, mqtt_broker.py:68-84; _client is set from the
\* first _connect on, so `not self._client` holds only while not running
publish(ok) ==
    /\ IF ~mqtt_running \/ ~client_connected
       THEN /\ last_publish' = "refused"
            /\ UNCHANGED client_connected
       ELSE IF ok
       THEN /\ last_publish' = "sent"
            /\ UNCHANGED client_connected
       ELSE /\ last_publish' = "failed"
            /\ client_connected' = FALSE
    /\ UNCHANGED <<mqtt_enabled, mqtt_running, reconnect_interval, reconnect_task,
                   sleeping_for, fail_streak>>

\* MQTTBrokerService.stop, mqtt_broker.py:86-103
stop ==
    /\ reconnect_task # "none"
    /\ mqtt_running' = FALSE
    /\ reconnect_task' = IF reconnect_task \in {"loop", "sleeping", "connecting"}
                         THEN "cancelled" ELSE reconnect_task
    /\ client_connected' = FALSE
    /\ UNCHANGED <<mqtt_enabled, reconnect_interval, sleeping_for, fail_streak, last_publish>>

----------------------------------------------------------------------------
(* Specification of the MQTT service: started once by the lifespan handler *)
(* (api.py:185-186), published to by the publishing loop, stopped at       *)
(* shutdown (api.py:233-234).                                              *)

InitMqtt ==
    /\ heap = [r \in Refs |-> NoMachine]
    /\ machines = [ip \in IPs |-> NoRef]
    /\ snapshots = [ip \in IPs |-> NoSnap]
    /\ hist = [ip \in IPs |-> NoHist]
    /\ lastOp = NoOp
    /\ lastMerge = NoMerge
    /\ community_read = "public"
    /\ oid_data = <<>>
    /\ sorted_oids = <<>>
    /\ ip_to_index = [ip \in {} |-> 0]
    /\ request = NoRequest
    /\ response = NoResponse
    /\ polled = NoPoll
    /\ mqtt_enabled \in BOOLEAN
    /\ mqtt_running = FALSE
    /\ client_connected = FALSE
    /\ reconnect_interval = initial_reconnect_interval
    /\ reconnect_task = "none"
    /\ sleeping_for = 0
    /\ fail_streak = 0
    /\ last_publish = "none"
    /\ ScanInit
    /\ RestInit

MqttStart == (\E ok \in BOOLEAN : start(ok)) /\ UNCHANGED storeVars /\ UNCHANGED agentVars
    /\ UNCHANGED scanVars
    /\ UNCHANGED restVars

ReconnectLoopTest == reconnect_loop_test /\ UNCHANGED storeVars /\ UNCHANGED agentVars
    /\ UNCHANGED scanVars
    /\ UNCHANGED restVars

ReconnectWake == reconnect_wake /\ UNCHANGED storeVars /\ UNCHANGED agentVars
    /\ UNCHANGED scanVars
    /\ UNCHANGED restVars

ReconnectAttempt ==
    (\E ok \in BOOLEAN : reconnect_attempt(ok)) /\ UNCHANGED storeVars /\ UNCHANGED agentVars
    /\ UNCHANGED scanVars
    /\ UNCHANGED restVars

MqttPublish == (\E ok \in BOOLEAN : publish(ok)) /\ UNCHANGED storeVars /\ UNCHANGED agentVars
    /\ UNCHANGED scanVars
    /\ UNCHANGED restVars

MqttStop == stop /\ UNCHANGED storeVars /\ UNCHANGED agentVars
    /\ UNCHANGED scanVars
    /\ UNCHANGED restVars

NextMqtt ==
    \/ MqttStart
    \/ ReconnectLoopTest
    \/ ReconnectWake
    \/ ReconnectAttempt
    \/ MqttPublish
    \/ MqttStop

SpecMqtt == InitMqtt /\ [][NextMqtt]_vars

----------------------------------------------------------------------------
(* Specification of reconnection: the broker comes and goes, and a connect *)
(* made while it accepts succeeds (MQTTClient.connect, mqtt_broker.py:31); *)
(* the reconnect task is an asyncio task, whose sleep ends and whose       *)
(* connect returns, so each of its steps is taken when it stays enabled.   *)

MqttOthers ==
    /\ UNCHANGED storeVars
    /\ UNCHANGED agentVars
    /\ UNCHANGED scanVars
    /\ UNCHANGED <<collVars, nameVars, swapVars, lifeVars, visitVars, pingVars, pubVars, walkVars>>

\* the broker starts or stops accepting connections
BrokerChanges ==
    /\ broker_accepts' = ~broker_accepts
    /\ UNCHANGED <<mqtt_stop_pc, publish_pc, late_calls>>
    /\ UNCHANGED mqttVars
    /\ MqttOthers

LiveStart == start(broker_accepts) /\ MqttOthers /\ UNCHANGED brokerVars

LiveAttempt == reconnect_attempt(broker_accepts) /\ MqttOthers /\ UNCHANGED brokerVars

NextReconnect ==
    \/ BrokerChanges
    \/ LiveStart
    \/ ReconnectLoopTest
    \/ ReconnectWake
    \/ LiveAttempt
    \/ MqttPublish
    \/ MqttStop

ReconnectFairness ==
    /\ WF_vars(ReconnectLoopTest)
    /\ WF_vars(ReconnectWake)
    /\ WF_vars(LiveAttempt)

SpecReconnect == InitMqtt /\ [][NextReconnect]_vars /\ ReconnectFairness

----------------------------------------------------------------------------
(* Specification of the stop: MQTTBrokerService.stop and publish taken at  *)
(* their awaits, so that a stop runs while a publish or an attempt of the  *)
(* reconnect task is in flight. start has returned before stop is called   *)
(* (api.py:186 and 233-234).                                               *)

\* stop that clears the flag and does not cancel the reconnect task (a mutant)
StopBeginNoCancel ==
    /\ mqtt_stop_pc = "none"
    /\ reconnect_task # "none"
    /\ mqtt_running' = FALSE
    /\ IF reconnect_task = "disabled"
       THEN /\ client_connected' = FALSE
            /\ mqtt_stop_pc' = "done"
       ELSE /\ mqtt_stop_pc' = "awaiting_task"
            /\ UNCHANGED client_connected
    /\ UNCHANGED <<mqtt_enabled, reconnect_interval, reconnect_task, sleeping_for,
                   fail_streak, last_publish>>
    /\ UNCHANGED <<broker_accepts, publish_pc, late_calls>>

\* MQTTBrokerService.stop, mqtt_broker.py:86-95: the flag is cleared and the
\* reconnect task cancelled: suspended at its sleep or in _connect, it runs no
\* further statement of its body (CancelledError is not an Exception); without
\* a task (MQTT disabled) stop runs to its end, 97-103
stop_begin ==
    /\ mqtt_stop_pc = "none"
    /\ reconnect_task # "none"
    /\ mqtt_running' = FALSE
    /\ IF reconnect_task = "disabled"
       THEN /\ client_connected' = FALSE
            /\ mqtt_stop_pc' = "done"
            /\ UNCHANGED reconnect_task
       ELSE /\ reconnect_task' = IF reconnect_task \in {"loop", "sleeping", "connecting"}
                                 THEN "cancelled" ELSE reconnect_task
            /\ mqtt_stop_pc' = "awaiting_task"
            /\ UNCHANGED client_connected
    /\ UNCHANGED <<mqtt_enabled, reconnect_interval, sleeping_for, fail_streak, last_publish>>
    /\ UNCHANGED <<broker_accepts, publish_pc, late_calls>>

\* stop, mqtt_broker.py:92-102: the await of the cancelled task returns; the
\* client is disconnected when the flag says it is connected
stop_task_awaited ==
    /\ mqtt_stop_pc = "awaiting_task"
    /\ IF client_connected
       THEN /\ mqtt_stop_pc' = "disconnecting"
            /\ UNCHANGED client_connected
       ELSE /\ mqtt_stop_pc' = "done"
            /\ client_connected' = FALSE
    /\ UNCHANGED <<mqtt_enabled, mqtt_running, reconnect_interval, reconnect_task,
                   sleeping_for, fail_streak, last_publish>>
    /\ UNCHANGED <<broker_accepts, publish_pc, late_calls>>

\* stop, mqtt_broker.py:98-103: disconnect returned or raised
stop_disconnected ==
    /\ mqtt_stop_pc = "disconnecting"
    /\ mqtt_stop_pc' = "done"
    /\ client_connected' = FALSE
    /\ UNCHANGED <<mqtt_enabled, mqtt_running, reconnect_interval, reconnect_task,
                   sleeping_for, fail_streak, last_publish>>
    /\ UNCHANGED <<broker_accepts, publish_pc, late_calls>>

\* MQTTBrokerService.publish, mqtt_broker.py:68-78: the test of the flags and,
\* when it passes, the call of the broker
publish_begin ==
    /\ publish_pc = "none"
    /\ IF ~mqtt_running \/ ~client_connected
       THEN /\ last_publish' = "refused"
            /\ UNCHANGED <<publish_pc, late_calls>>
       ELSE /\ publish_pc' = "in_flight"
            /\ late_calls' = (late_calls \/ mqtt_stop_pc = "done")
            /\ UNCHANGED last_publish
    /\ UNCHANGED <<mqtt_enabled, mqtt_running, client_connected, reconnect_interval,
                   reconnect_task, sleeping_for, fail_streak>>
    /\ UNCHANGED <<broker_accepts, mqtt_stop_pc>>

\* publish, mqtt_broker.py:78-84: the call of the broker returned (ok) or raised
publish_end(ok) ==
    /\ publish_pc = "in_flight"
    /\ publish_pc' = "none"
    /\ IF ok
       THEN /\ last_publish' = "sent"
            /\ UNCHANGED client_connected
       ELSE /\ last_publish' = "failed"
            /\ client_connected' = FALSE
    /\ UNCHANGED <<mqtt_enabled, mqtt_running, reconnect_interval, reconnect_task,
                   sleeping_for, fail_streak>>
    /\ UNCHANGED <<broker_accepts, mqtt_stop_pc, late_calls>>

StopBegin == stop_begin /\ MqttOthers

StopTaskAwaited == stop_task_awaited /\ MqttOthers

StopDisconnected == stop_disconnected /\ MqttOthers

PublishBegin == publish_begin /\ MqttOthers

PublishEnd == \E ok \in BOOLEAN : publish_end(ok) /\ MqttOthers

NextStop ==
    \/ MqttStart
    \/ ReconnectLoopTest
    \/ ReconnectWake
    \/ ReconnectAttempt
    \/ PublishBegin
    \/ PublishEnd
    \/ StopBegin
    \/ StopTaskAwaited
    \/ StopDisconnected

SpecStop == InitMqtt /\ [][NextStop]_vars

----------------------------------------------------------------------------
(* Inputs of the agent *)

\* most OIDs in one request
MaxBinds == 2
\* largest non-repeaters of a GETBULK request
MaxNonRep == 2
\* largest max-repetitions of a GETBULK request
MaxRep == 2

Communities == {"public", "secret"}

\* the OIDs asked for: one below every key, the last scalar, a 64-bit cell of
\* the first memory row (absent while the store is empty), and the largest key
\* of the projection
RequestOids ==
    { <<1>>, MACHINE_COUNT, MEMORY_ENTRY(2) \o <<1>> }
    \cup (IF Len(sorted_oids) > 0 THEN {sorted_oids[Len(sorted_oids)]} ELSE {})

OidLists == UNION { [1..n -> RequestOids] : n \in 1..MaxBinds }

Requests ==
    { Request(kind, community, 41, oids, 0, 0) :
        kind \in {"get", "getnext", "set"}, community \in Communities, oids \in OidLists }
    \cup { Request("getbulk", community, 41, oids, k, r) :
        community \in Communities, oids \in OidLists, k \in 0..MaxNonRep, r \in 0..MaxRep }
    \cup { Request("malformed", "", 0, <<>>, 0, 0),
           Request("dispatch_error", "public", 41, <<MACHINE_COUNT>>, 0, 0) }

\* what the collectors report about the two hosts
AgentMetrics(ip) ==
    IF ip = "10.0.0.5"
    THEN [Metrics(CPUMetrics(1250, 4), MemoryMetrics(PyInt(4, 0), PyInt(1, 0), PyInt(3, 0), 2500),
                  <<StorageDevice("/dev/sda1", PyInt(100, 0), PyInt(0, 0), PyInt(100, 0), 0)>>)
            EXCEPT !.interfaces = <<NetworkInterface("eth0")>>,
                   !.cpu.temperature_celsius = -550]
    ELSE Metrics(CPUMetrics(0, 2), MemoryMetrics(Small(1024), Small(0), Small(1024), 0), <<>>)

AgentMachine(ip) ==
    [MachineInfo(ip) EXCEPT !.collection_method = "snmp", !.snmp_active = TRUE,
                            !.hostname = "router", !.snmp_sysname = "router"]

----------------------------------------------------------------------------
(* Specification of the SNMP agent: the store is fed by the collection loop, *)
(* the projection is rebuilt on its timer, datagrams arrive in between.      *)

InitAgent ==
    /\ heap = [r \in Refs |-> NoMachine]
    /\ machines = [ip \in IPs |-> NoRef]
    /\ snapshots = [ip \in IPs |-> NoSnap]
    /\ hist = [ip \in IPs |-> NoHist]
    /\ lastOp = NoOp
    /\ lastMerge = NoMerge
    /\ community_read \in Communities
    /\ request = NoRequest
    /\ response = NoResponse
    /\ oid_data = [o \in {AGENT_VERSION, AGENT_UPTIME, MACHINE_COUNT} |->
                     IF o = AGENT_VERSION THEN PyStr("1.0.0") ELSE Small(0)]
    /\ sorted_oids = <<AGENT_VERSION, AGENT_UPTIME, MACHINE_COUNT>>
    /\ ip_to_index = [ip \in {} |-> 0]
    /\ polled = NoPoll
    /\ MqttInit
    /\ ScanInit
    /\ RestInit

\* the collection loop stores the snapshot of a host, main.py:136-172; one
\* collection cycle is followed, so each host is collected once
CollectSnapshot ==
    /\ request = NoRequest
    /\ \E ip \in IPs :
          /\ ~HasSnapshot(ip)
          /\ update_snapshot(AgentMachine(ip), AgentMetrics(ip))

\* the update loop rebuilds the projection, snmp_agent.py:403-407
UpdateData ==
    /\ request = NoRequest
    /\ _update_data
    /\ polled' = [polled EXCEPT !.rebuilt = (polled.value # NoValue)]
    /\ UNCHANGED <<community_read, request, response>>
    /\ UNCHANGED storeVars
    /\ UNCHANGED mqttVars
    /\ UNCHANGED scanVars
    /\ UNCHANGED restVars

DatagramReceived == \E req \in Requests : datagram_received(req)

DatagramDone == datagram_done

NextAgent == CollectSnapshot \/ UpdateData \/ DatagramReceived \/ DatagramDone

SpecAgent == InitAgent /\ [][NextAgent]_vars

----------------------------------------------------------------------------
(* Specification of the rebroadcast path: the publishing loop polls the     *)
(* device, the projection is rebuilt, and the rebroadcast OID is asked for. *)

RebroadcastRequests ==
    { Request("get", community, 41, oids, 0, 0) :
        community \in Communities,
        oids \in UNION { [1..n -> {RebroadcastOid, MACHINE_COUNT}] : n \in 1..MaxBinds } }

PublishCycle ==
    /\ request = NoRequest
    /\ \E value \in PolledValues \cup {NoValue} : publish_custom_oids(value)

RebroadcastGet == \E req \in RebroadcastRequests : datagram_received(req)

NextRebroadcast ==
    \/ CollectSnapshot
    \/ PublishCycle
    \/ UpdateData
    \/ RebroadcastGet
    \/ DatagramDone

SpecRebroadcast == InitAgent /\ [][NextRebroadcast]_vars

----------------------------------------------------------------------------
(* Inputs of the store operations *)

StoreHostnames == {"unknown", "router"}

\* the hostnames handed to add_machine: none, the sentinel, a name, or the ip
\* itself
MergeHostnames(ip) == {"", "unknown", "router", ip}

\* what callers hand to add_machine: any method, either snmp_active
MachineInputs(ip) ==
    { [MachineInfo(ip) EXCEPT !.collection_method = method, !.snmp_active = active,
                              !.hostname = hostname, !.last_seen = t] :
        method \in Methods, active \in BOOLEAN, hostname \in StoreHostnames, t \in Times }

\* MachineInfo as the collectors construct it: snmp_collector.py:264-274,
\* ssh_collector.py:113-122, local_collector.py:65-74
CollectorMachines(ip) ==
    { [MachineInfo(ip) EXCEPT !.collection_method = method,
                              !.snmp_active = (method = "snmp"),
                              !.hostname = hostname,
                              !.snmp_sysname = IF method = "snmp" /\ hostname # "unknown"
                                               THEN hostname ELSE "",
                              !.last_seen = t] :
        method \in {"snmp", "ssh", "local"}, hostname \in StoreHostnames, t \in Times }

\* what discovery and the collectors hand to add_machine for an ip that is
\* merged: a scan result or an SNMP identification, with any of the hostnames
MergeInputs(ip) ==
    { [MachineInfo(ip) EXCEPT !.collection_method = method,
                              !.snmp_active = (method = "snmp"),
                              !.hostname = hostname, !.last_seen = t] :
        method \in {"ping", "snmp"}, hostname \in MergeHostnames(ip), t \in Times }

StoreMetrics ==
    {Metrics(CPUMetrics(1250, 4), MemoryMetrics(PyInt(4, 0), PyInt(1, 0), PyInt(3, 0), 2500), <<>>)}

----------------------------------------------------------------------------
(* Specification of the fleet store *)

Init ==
    /\ heap = [r \in Refs |-> NoMachine]
    /\ machines = [ip \in IPs |-> NoRef]
    /\ snapshots = [ip \in IPs |-> NoSnap]
    /\ hist = [ip \in IPs |-> NoHist]
    /\ lastOp = NoOp
    /\ lastMerge = NoMerge
    /\ community_read = "public"
    /\ oid_data = <<>>
    /\ sorted_oids = <<>>
    /\ ip_to_index = [ip \in {} |-> 0]
    /\ request = NoRequest
    /\ response = NoResponse
    /\ polled = NoPoll
    /\ MqttInit
    /\ ScanInit
    /\ RestInit

AddMachine ==
    \E ip \in StoreIPs : \E machine \in MachineInputs(ip) :
        add_machine(machine) /\ UNCHANGED lastMerge

RemoveMachine == \E ip \in StoreIPs : remove_machine(ip)

UpdateSnapshot ==
    \E ip \in StoreIPs : \E machine \in CollectorMachines(ip) : \E metrics \in StoreMetrics :
        update_snapshot(machine, metrics)

UpdateSnapshots ==
    \E ip \in StoreIPs : \E machine \in CollectorMachines(ip) : \E metrics \in StoreMetrics :
        update_snapshots(machine, metrics)

Clear == clear

NextStore == AddMachine \/ RemoveMachine \/ UpdateSnapshot \/ UpdateSnapshots \/ Clear

SpecStore == Init /\ [][NextStore]_vars

----------------------------------------------------------------------------
(* Specification of the merge: add_machine calls on one ip, as the discovery *)
(* loop (main.py:118, api.py:276) and the scan endpoint (api.py:616) make.   *)

MergeAdd ==
    \E ip \in StoreIPs : \E machine \in MergeInputs(ip) :
        /\ add_machine(machine)
        /\ lastMerge' = Merge(ip, machine)

NextMerge == MergeAdd

SpecMerge == Init /\ [][NextMerge]_vars

----------------------------------------------------------------------------
(* Discovery and collection: src/src/main.py, src/src/web/api.py *)

\* LocalCollector._local_ip, local_collector.py:43
LocalIp == "10.0.0.5"

\* what a collector's collect_all does: returns None, raises, or returns a
\* snapshot
Outcomes == {"none", "raise", "snapshot"}

\* the snapshot a collector returns for ip: snmp_collector.py:264-274,
\* ssh_collector.py:113-122, local_collector.py:65-74
CollectedMachine(ip, method, t) ==
    [MachineInfo(ip) EXCEPT !.collection_method = method,
                            !.snmp_active = (method = "snmp"),
                            !.hostname = "router",
                            !.snmp_sysname = IF method = "snmp" THEN "router" ELSE "",
                            !.last_seen = t]

\* the store untouched by a collection that produced nothing
CollectionFailed(ip) ==
    /\ lastOp' = [NoOp EXCEPT !.op = "collect_failed", !.ip = ip]
    /\ UNCHANGED <<heap, machines, snapshots, hist, lastMerge>>
    /\ UNCHANGED agentVars
    /\ UNCHANGED mqttVars
    /\ UNCHANGED scanVars
    /\ UNCHANGED restVars

\* the loop body writing a default snapshot when every method failed (a mutant)
CollectMachineBlank(ip, first, ssh, snmp_on, ssh_on, t) ==
    IF first = "snapshot"
    THEN update_snapshot(CollectedMachine(ip, "snmp", t), NoMetrics)
    ELSE /\ snapshots' = [snapshots EXCEPT ![ip] = HardwareSnapshot(machines[ip], NoMetrics)]
         /\ lastOp' = [NoOp EXCEPT !.op = "collect_failed", !.ip = ip]
         /\ UNCHANGED <<heap, machines, hist, lastMerge>>
         /\ UNCHANGED agentVars
         /\ UNCHANGED mqttVars
         /\ UNCHANGED scanVars
         /\ UNCHANGED restVars

\* the body of the collection loop for one machine, main.py:141-164 and
\* api.py:296-316: `first` is the outcome of the local collector (local ip) or of
\* the SNMP collector (when collect_remote_snmp), `ssh` that of the SSH fallback
collect_machine(ip, first, ssh, snmp_on, ssh_on, t) ==
    LET tried == ip = LocalIp \/ snmp_on
        got   == tried /\ first = "snapshot"
        method == IF ip = LocalIp THEN "local" ELSE "snmp"
    IN IF tried /\ first = "raise" THEN CollectionFailed(ip)
       ELSE IF got THEN update_snapshot(CollectedMachine(ip, method, t), NoMetrics)
       ELSE IF ~ssh_on \/ ssh # "snapshot" THEN CollectionFailed(ip)
       ELSE update_snapshot(CollectedMachine(ip, "ssh", t), NoMetrics)

\* what a discovery scan reports for ip, network_scanner.py:121-130
ScanMachines(ip) ==
    { [MachineInfo(ip) EXCEPT !.collection_method = method, !.last_seen = t] :
        method \in {"ping", "arp"}, t \in Times }

----------------------------------------------------------------------------
(* Specification of GETBULK near the end of the projection: the requests    *)
(* start at the three agent scalars, so that a stream can run off the end   *)
(* after it has returned a value.                                           *)

BulkRequests ==
    { Request("getbulk", "public", 41, oids, k, r) :
        oids \in UNION { [1..n -> {AGENT_VERSION, AGENT_UPTIME, MACHINE_COUNT}] : n \in 1..MaxBinds },
        k \in 0..1, r \in 0..MaxRep }

BulkDatagram == \E req \in BulkRequests : datagram_received(req)

NextBulk == CollectSnapshot \/ UpdateData \/ BulkDatagram \/ DatagramDone

SpecBulk == InitAgent /\ [][NextBulk]_vars

----------------------------------------------------------------------------
(* The MQTT publishing loop: _mqtt_oid_publishing_loop,                     *)
(* src/src/web/api.py:324-427                                               *)

\* largest number of custom OIDs in a device configuration
MaxOids == 2

\* the configurations saved: for the local host every combination of enabled
\* and of the three publish flags, without custom OIDs; for the remote host
\* enabled or not, every flag set, with custom OIDs
DeviceConfigs(ip) ==
    IF ip = LocalIp
    THEN { MqttDeviceConfig(en, c, m, st, 0) :
             en \in BOOLEAN, c \in BOOLEAN, m \in BOOLEAN, st \in BOOLEAN }
    ELSE { MqttDeviceConfig(en, TRUE, TRUE, TRUE, MaxOids) : en \in BOOLEAN }

\* an entry of the log: what was attempted for ip (a visit, a standard publish,
\* the poll or the publish of custom OID k) and whether it gave something
Attempt(ip, what, k, ok) == [ip |-> ip, what |-> what, k |-> k, ok |-> ok]

\* what MQTTBrokerService.publish returns, mqtt_broker.py:68-84
publish_returns(ok) == mqtt_running /\ client_connected /\ ok

\* save_mqtt_device_config, api.py:793-816, as an earlier run of the program
\* did it: the configurations are those loaded from the database at start-up,
\* api.py:168
save_mqtt_device_config(ip, config) ==
    /\ pub_pc = "none"
    /\ ~mqtt_configs[ip].present
    /\ mqtt_configs' = [mqtt_configs EXCEPT ![ip] = config]
    /\ UNCHANGED <<loop_running, pub_pc, pub_list, pub_items, pub_device, pub_oid, pub_log>>

\* lifespan, api.py:204-208: _running = True and the task is created, after
\* the MQTT service was started (api.py:185-186)
pub_start ==
    /\ pub_pc = "none"
    /\ reconnect_task # "none"
    /\ ~loop_running
    /\ loop_running' = TRUE
    /\ pub_pc' = "test"
    /\ UNCHANGED <<mqtt_configs, pub_list, pub_items, pub_device, pub_oid, pub_log>>

\* lifespan, api.py:215: _running = False (the task is not cancelled)
pub_shutdown ==
    /\ loop_running
    /\ loop_running' = FALSE
    /\ UNCHANGED <<mqtt_configs, pub_pc, pub_list, pub_items, pub_device, pub_oid, pub_log>>

\* `while _running:` and `list(_mqtt_device_configs.items())`, api.py:328-330,
\* the pairs in the order `order` of the dict
pub_loop_test(order) ==
    /\ pub_pc = "test"
    /\ IF loop_running
       THEN LET present == SelectSeq(order, LAMBDA ip : mqtt_configs[ip].present)
                items == [i \in 1..Len(present) |->
                            [ip |-> present[i], config |-> mqtt_configs[present[i]]]]
            IN /\ pub_pc' = "device"
               /\ pub_list' = items
               /\ pub_items' = items
               /\ pub_log' = {}
       ELSE /\ pub_pc' = "ended"
            /\ UNCHANGED <<pub_list, pub_items, pub_log>>
    /\ UNCHANGED <<mqtt_configs, loop_running, pub_device, pub_oid>>

\* the loop head treating a disabled device as an enabled one (a mutant)
PubNextDeviceAll ==
    /\ pub_pc = "device"
    /\ IF pub_items = <<>>
       THEN /\ pub_pc' = "sleeping"
            /\ UNCHANGED <<pub_items, pub_device, pub_oid, pub_log>>
       ELSE LET item == Head(pub_items)
                snapshot == HasSnapshot(item.ip)
            IN /\ pub_items' = Tail(pub_items)
               /\ pub_device' = [ip |-> item.ip, config |-> item.config,
                                 snapshot |-> snapshot]
               /\ pub_oid' = 1
               /\ pub_log' = pub_log \cup {Attempt(item.ip, "visit", 0, snapshot)}
               /\ pub_pc' = IF snapshot THEN "cpu" ELSE "poll"
    /\ UNCHANGED <<mqtt_configs, loop_running, pub_list>>

\* the head of `for device_ip, mqtt_config in ...`, api.py:330-342: the list is
\* exhausted and the loop sleeps, or the next device is skipped (not enabled),
\* or its snapshot is looked up
pub_next_device ==
    /\ pub_pc = "device"
    /\ IF pub_items = <<>>
       THEN /\ pub_pc' = "sleeping"
            /\ UNCHANGED <<pub_items, pub_device, pub_oid, pub_log>>
       ELSE LET item == Head(pub_items)
                snapshot == HasSnapshot(item.ip)
            IN /\ pub_items' = Tail(pub_items)
               /\ IF ~item.config.enabled
                  THEN UNCHANGED <<pub_pc, pub_device, pub_oid, pub_log>>
                  ELSE /\ pub_device' = [ip |-> item.ip, config |-> item.config,
                                         snapshot |-> snapshot]
                       /\ pub_oid' = 1
                       /\ pub_log' = pub_log \cup {Attempt(item.ip, "visit", 0, snapshot)}
                       /\ pub_pc' = IF snapshot THEN "cpu" ELSE "poll"
    /\ UNCHANGED <<mqtt_configs, loop_running, pub_list>>

\* the stage after a standard metric
NextStage(what) ==
    CASE what = "cpu" -> "memory"
      [] what = "memory" -> "storage"
      [] OTHER -> "poll"

\* the flag of a standard metric in the configuration, api.py:348, 358, 368
\* (`snapshot.storage` is a StorageMetrics object, always truthy)
PublishFlag(config, what) ==
    CASE what = "cpu" -> config.publish_cpu
      [] what = "memory" -> config.publish_memory
      [] OTHER -> config.publish_storage

\* one of the three standard metrics, api.py:343-382: published when its flag
\* is set
pub_standard(what, ok) ==
    /\ pub_pc = what
    /\ what \in {"cpu", "memory", "storage"}
    /\ IF PublishFlag(pub_device.config, what)
       THEN /\ publish(ok)
            /\ pub_log' = pub_log \cup {Attempt(pub_device.ip, what, 0, publish_returns(ok))}
       ELSE /\ UNCHANGED mqttVars
            /\ UNCHANGED pub_log
    /\ pub_pc' = NextStage(what)
    /\ UNCHANGED <<mqtt_configs, loop_running, pub_list, pub_items, pub_device, pub_oid>>

\* `for oid_config in custom_oids` and the poll, api.py:384-393: the entries are
\* exhausted and the loop turns to the next device, or the OID is polled;
\* _get_oid returns None when the poll fails (snmp_collector.py:121-147)
pub_poll(value) ==
    /\ pub_pc = "poll"
    /\ IF pub_oid > pub_device.config.custom_oids
       THEN /\ pub_pc' = "device"
            /\ pub_device' = NoDevice
            /\ pub_oid' = 1
            /\ UNCHANGED pub_log
       ELSE /\ pub_log' = pub_log \cup
                   {Attempt(pub_device.ip, "poll", pub_oid, value # NoValue)}
            /\ IF value = NoValue
               THEN /\ pub_oid' = pub_oid + 1
                    /\ UNCHANGED pub_pc
               ELSE /\ pub_pc' = "publish"
                    /\ UNCHANGED pub_oid
            /\ UNCHANGED pub_device
    /\ UNCHANGED <<mqtt_configs, loop_running, pub_list, pub_items>>

\* the publish of a custom OID whose failure is raised to the outer `except` of
\* the loop: the rest of the iteration is dropped (a mutant)
PubCustomRaises(ok) ==
    /\ pub_pc = "publish"
    /\ publish(ok)
    /\ pub_log' = pub_log \cup
          {Attempt(pub_device.ip, "publish", pub_oid, publish_returns(ok))}
    /\ IF publish_returns(ok)
       THEN /\ pub_pc' = "rebroadcast"
            /\ UNCHANGED <<pub_items, pub_device>>
       ELSE /\ pub_pc' = "sleeping"
            /\ pub_items' = <<>>
            /\ pub_device' = NoDevice
    /\ UNCHANGED <<mqtt_configs, loop_running, pub_list, pub_oid>>

\* the publish of the polled value, api.py:395-413; publish returns False on a
\* failure (mqtt_broker.py:81-84) and the loop goes on
pub_custom(ok) ==
    /\ pub_pc = "publish"
    /\ publish(ok)
    /\ pub_log' = pub_log \cup
          {Attempt(pub_device.ip, "publish", pub_oid, publish_returns(ok))}
    /\ pub_pc' = "rebroadcast"
    /\ UNCHANGED <<mqtt_configs, loop_running, pub_list, pub_items, pub_device, pub_oid>>

\* the rebroadcast, api.py:415-421: update_custom_metric returns or raises into
\* the `except` of this entry; either way the next entry is turned to
pub_rebroadcast ==
    /\ pub_pc = "rebroadcast"
    /\ update_custom_metric_call \in {"returned", "AttributeError"}
    /\ pub_pc' = "poll"
    /\ pub_oid' = pub_oid + 1
    /\ UNCHANGED <<mqtt_configs, loop_running, pub_list, pub_items, pub_device, pub_log>>

\* `await asyncio.sleep(5)` is over, api.py:426-427
pub_sleep_done ==
    /\ pub_pc = "sleeping"
    /\ pub_pc' = "test"
    /\ UNCHANGED <<mqtt_configs, loop_running, pub_list, pub_items, pub_device, pub_oid,
                   pub_log>>

\* what the publishing loop leaves alone besides the MQTT service
PubOthers ==
    /\ UNCHANGED storeVars
    /\ UNCHANGED agentVars
    /\ UNCHANGED scanVars
    /\ UNCHANGED <<collVars, nameVars, swapVars, lifeVars, visitVars, pingVars, brokerVars, walkVars>>

----------------------------------------------------------------------------
(* Specification of the publishing loop: the MQTT service is started, device *)
(* configurations are saved and snapshots collected between iterations.      *)

\* the snapshots collected before the loop starts, api.py:188-192
PubCollect == pub_pc = "none" /\ CollectSnapshot

SaveMqttDeviceConfig ==
    \E ip \in IPs : \E config \in DeviceConfigs(ip) :
        save_mqtt_device_config(ip, config) /\ UNCHANGED mqttVars /\ PubOthers

PubStart == pub_start /\ UNCHANGED mqttVars /\ PubOthers

PubShutdown == pub_shutdown /\ UNCHANGED mqttVars /\ PubOthers

PubLoopTest ==
    pub_loop_test(<<"10.0.0.10", "10.0.0.5">>) /\ UNCHANGED mqttVars /\ PubOthers

PubNextDevice == pub_next_device /\ UNCHANGED mqttVars /\ PubOthers

PubStandard ==
    \E what \in {"cpu", "memory", "storage"}, ok \in BOOLEAN :
        pub_standard(what, ok) /\ PubOthers

PubPoll ==
    \E value \in {NoValue, Small(42)} : pub_poll(value) /\ UNCHANGED mqttVars /\ PubOthers

PubCustom == \E ok \in BOOLEAN : pub_custom(ok) /\ PubOthers

PubRebroadcast == pub_rebroadcast /\ UNCHANGED mqttVars /\ PubOthers

PubSleepDone == pub_sleep_done /\ UNCHANGED mqttVars /\ PubOthers

NextPublish ==
    \/ MqttStart
    \/ PubCollect
    \/ SaveMqttDeviceConfig
    \/ PubStart
    \/ PubShutdown
    \/ PubLoopTest
    \/ PubNextDevice
    \/ PubStandard
    \/ PubPoll
    \/ PubCustom
    \/ PubRebroadcast
    \/ PubSleepDone

SpecPublish == InitMqtt /\ [][NextPublish]_vars

----------------------------------------------------------------------------
(* Specification of the fleet: discovery adds machines, the collection loop *)
(* visits the known machines, and machines are removed or the store cleared. *)

\* the discovery loop, main.py:108-124 and api.py:264-282
Discover ==
    \E ip \in IPs : \E machine \in ScanMachines(ip) :
        add_machine(machine) /\ UNCHANGED lastMerge

\* the collection loop visits a known machine
CollectMachine ==
    \E ip \in IPs :
        /\ HasMachine(ip)
        /\ \E first \in Outcomes, ssh \in Outcomes, snmp_on \in BOOLEAN, ssh_on \in BOOLEAN,
              t \in Times :
              /\ ip = LocalIp => first # "none"
              /\ collect_machine(ip, first, ssh, snmp_on, ssh_on, t)

RemoveKnown == \E ip \in IPs : remove_machine(ip)

ClearAll == clear

NextFleet == Discover \/ CollectMachine \/ RemoveKnown \/ ClearAll

SpecFleet == Init /\ [][NextFleet]_vars

----------------------------------------------------------------------------
(* One cycle of the collection loop, host by host:                          *)
(* _collect_all_metrics, src/src/main.py:136-164, and the body of           *)
(* _collection_loop, src/src/web/api.py:291-318                             *)

\* the loop body calling the SSH collector whenever SSH is enabled (a mutant)
MethodsTriedSshAlways(ip, first, snmp_on, ssh_on) ==
    LET head == IF ip = LocalIp THEN <<"local">>
                ELSE IF snmp_on THEN <<"snmp">> ELSE <<>>
    IN IF ssh_on THEN head \o <<"ssh">> ELSE head

\* the collectors the loop body calls for ip, in the order it calls them,
\* main.py:145-154: the local collector or (collect_remote_snmp) the SNMP
\* collector, with outcome `first`; then, `if not snapshot and
\* self.ssh_collector and collect_remote_ssh`, the SSH collector. A collector
\* that raises ends the body in its `except Exception`.
methods_tried(ip, first, snmp_on, ssh_on) ==
    LET head == IF ip = LocalIp THEN <<"local">>
                ELSE IF snmp_on THEN <<"snmp">> ELSE <<>>
        got  == head # <<>> /\ first = "snapshot"
    IN IF head # <<>> /\ first = "raise" THEN head
       ELSE IF ~got /\ ssh_on THEN head \o <<"ssh">>
       ELSE head

\* the collector whose snapshot reaches `if snapshot:`, main.py:156 ("none"
\* when the body has no snapshot there or was left by an exception)
method_stored(ip, first, ssh, snmp_on, ssh_on) ==
    LET tried == methods_tried(ip, first, snmp_on, ssh_on)
    IN IF tried = <<>> THEN "none"
       ELSE IF tried[Len(tried)] = "ssh"
            THEN IF ssh = "snapshot" THEN "ssh" ELSE "none"
       ELSE IF first = "snapshot" THEN tried[Len(tried)] ELSE "none"

\* `machines = self.data_manager.machines`, main.py:138: the list is a copy
\* (data_manager.py:38-41) with one MachineInfo per known ip
collect_all_metrics_begin ==
    /\ ~collecting
    /\ collecting' = TRUE
    /\ todo' = {ip \in IPs : HasMachine(ip)}
    /\ visit' = NoVisit
    /\ updates' = [ip \in IPs |-> 0]

\* one pass of `for machine in machines`, main.py:141-164
collect_visit(ip, first, ssh, snmp_on, ssh_on, t) ==
    LET method == method_stored(ip, first, ssh, snmp_on, ssh_on)
    IN
    /\ collecting
    /\ ip \in todo
    /\ IF method # "none"
       THEN update_snapshot_store(CollectedMachine(ip, method, t), NoMetrics)
       ELSE /\ lastOp' = [NoOp EXCEPT !.op = "collect_failed", !.ip = ip]
            /\ UNCHANGED <<heap, machines, snapshots, hist, lastMerge>>
    /\ todo' = todo \ {ip}
    /\ visit' = [ip |-> ip, snmp_on |-> snmp_on, ssh_on |-> ssh_on, first |-> first,
                 tried |-> methods_tried(ip, first, snmp_on, ssh_on), stored |-> method]
    /\ updates' = [updates EXCEPT ![ip] = @ + (IF method # "none" THEN 1 ELSE 0)]
    /\ UNCHANGED collecting

\* the list is exhausted, main.py:166-172
collect_all_metrics_end ==
    /\ collecting
    /\ todo = {}
    /\ collecting' = FALSE
    /\ UNCHANGED <<todo, visit, updates>>

\* what the collection cycle leaves alone besides the store
VisitOthers ==
    /\ UNCHANGED agentVars
    /\ UNCHANGED mqttVars
    /\ UNCHANGED scanVars
    /\ UNCHANGED <<collVars, nameVars, swapVars, lifeVars, pingVars, pubVars, brokerVars, walkVars>>

----------------------------------------------------------------------------
(* Specification of the collection cycle: discovery adds hosts while the    *)
(* loop goes through its list.                                              *)

\* the discovery loop adds a host that answered a ping, main.py:108-124
CycleDiscover ==
    \E ip \in IPs :
        /\ add_machine([MachineInfo(ip) EXCEPT !.collection_method = "ping"])
        /\ UNCHANGED lastMerge

CollectAllMetricsBegin == collect_all_metrics_begin /\ UNCHANGED storeVars /\ VisitOthers

CollectVisit ==
    \E ip \in IPs, first \in Outcomes, ssh \in Outcomes,
       snmp_on \in BOOLEAN, ssh_on \in BOOLEAN, t \in Times :
        /\ ip = LocalIp => first # "none"
        /\ collect_visit(ip, first, ssh, snmp_on, ssh_on, t)
        /\ VisitOthers

CollectAllMetricsEnd == collect_all_metrics_end /\ UNCHANGED storeVars /\ VisitOthers

NextCycle == CycleDiscover \/ CollectAllMetricsBegin \/ CollectVisit \/ CollectAllMetricsEnd

SpecCycle == Init /\ [][NextCycle]_vars

----------------------------------------------------------------------------
(* Pings in flight: ping_sweep of src/src/discovery/network_scanner.py run  *)
(* by the discovery loop and by a manual scan, src/src/web/api.py:604-620   *)

\* host bits of the subnet the discovery loop sweeps and of the largest subnet
\* a manual scan is asked to sweep
DiscoveryHostBits == 6

ManualHostBits == 2

\* asyncio.Semaphore(50), network_scanner.py:189
ping_limit == 50

\* the subnets a scan sweeps
ScanHostBits(s) == IF s = "discovery" THEN {DiscoveryHostBits} ELSE 1..ManualHostBits

\* ping_sweep, network_scanner.py:163-199: the call creates its own semaphore
\* and one ping task per host; a scanner sweeps its subnets one after another
\* (discover_all, network_scanner.py:68-70)
sweep_begin(s, h) ==
    /\ waiting[s] = 0
    /\ in_flight[s] = 0
    /\ sem' = [sem EXCEPT ![s] = ping_limit]
    /\ waiting' = [waiting EXCEPT ![s] = Len(SweepHosts(h))]
    /\ UNCHANGED in_flight

\* ping_with_semaphore, network_scanner.py:191-193, and _ping, 203-220: a task
\* enters the semaphore of its sweep and starts its ping subprocess
ping_acquire(s) ==
    /\ waiting[s] > 0
    /\ sem[s] > 0
    /\ sem' = [sem EXCEPT ![s] = @ - 1]
    /\ waiting' = [waiting EXCEPT ![s] = @ - 1]
    /\ in_flight' = [in_flight EXCEPT ![s] = @ + 1]

\* _ping, network_scanner.py:222-236: the subprocess ended or was killed, and
\* the task leaves the semaphore
ping_release(s) ==
    /\ in_flight[s] > 0
    /\ in_flight' = [in_flight EXCEPT ![s] = @ - 1]
    /\ sem' = [sem EXCEPT ![s] = @ + 1]
    /\ UNCHANGED waiting

\* what the pings leave alone
PingOthers ==
    /\ UNCHANGED storeVars
    /\ UNCHANGED agentVars
    /\ UNCHANGED mqttVars
    /\ UNCHANGED scanVars
    /\ UNCHANGED <<collVars, nameVars, swapVars, lifeVars, visitVars, pubVars, brokerVars, walkVars>>

SweepBegin == \E s \in Scans : \E h \in ScanHostBits(s) : sweep_begin(s, h) /\ PingOthers

PingAcquire == \E s \in Scans : ping_acquire(s) /\ PingOthers

PingRelease == \E s \in Scans : ping_release(s) /\ PingOthers

NextPings == SweepBegin \/ PingAcquire \/ PingRelease

SpecPings == Init /\ [][NextPings]_vars

----------------------------------------------------------------------------
(* Collectors: src/src/collectors/local_collector.py, snmp_collector.py and *)
(* ssh_collector.py. A sub-step of collect_all is one of its get_* calls    *)
(* (for the SNMP collector, one of the sections of collect_all_simple); it  *)
(* works ("ok"), fails and absorbs the failure in its own except clause,    *)
(* giving default values ("absorbed"), gives nothing ("none"), or raises    *)
(* into collect_all ("raise").                                              *)

Collectors == {"local", "snmp", "ssh"}

SubSteps == {"machine", "cpu", "memory", "storage", "power", "network"}

\* what the code of a sub-step allows it to do
StepOutcomes(collector, step) ==
    IF step = "machine"
    THEN IF collector = "local" THEN {"ok", "absorbed", "raise"}
         ELSE IF collector = "snmp" THEN {"ok", "absorbed", "none"}
         ELSE {"ok", "absorbed"}
    ELSE IF collector = "snmp" /\ step \in {"power", "network"} THEN {"ok"}
    ELSE {"ok", "absorbed", "raise"}

\* the calls of collect_all: the SSH connection and what each sub-step does
CollectCalls ==
    { [collector |-> collector, connect |-> connect, out |-> out] :
        collector \in Collectors, connect \in {"ok", "raise"},
        out \in [SubSteps -> {"ok", "absorbed", "none", "raise"}] }

ValidCall(call) ==
    /\ call.connect = "raise" => call.collector = "ssh"
    /\ \A step \in SubSteps : call.out[step] \in StepOutcomes(call.collector, step)

\* the snapshot collect_all returns: the errors list and the parts left at
\* their default values
Snapshot(errors, defaults) == [kind |-> "snapshot", errors |-> errors, defaults |-> defaults]

\* collect_all returned None
NoSnapshot == [kind |-> "None", errors |-> {}, defaults |-> {}]

\* an exception left collect_all
Raised == [kind |-> "raised", errors |-> {}, defaults |-> {}]

\* LocalCollector.collect_all (local_collector.py:334-376),
\* SNMPCollector.collect_all_simple (snmp_collector.py:438-641) and
\* SSHCollector.collect_all (ssh_collector.py:394-453)
collect_all(call) ==
    IF call.collector = "ssh" /\ call.connect = "raise" THEN NoSnapshot
    ELSE IF call.collector = "snmp" /\ call.out["machine"] = "none" THEN NoSnapshot
    ELSE IF call.collector = "ssh" /\ call.out["machine"] = "raise" THEN Raised
    ELSE Snapshot({step \in SubSteps : call.out[step] = "raise"},
                  {step \in SubSteps : call.out[step] \in {"absorbed", "raise"}})

----------------------------------------------------------------------------
(* Specification of the collectors: the collection loop calls collect_all *)
(* and takes what it returns.                                             *)

CollectAll ==
    /\ collect_call = NoCall
    /\ \E call \in CollectCalls :
          /\ ValidCall(call)
          /\ collect_call' = call
          /\ collect_result' = collect_all(call)
    /\ UNCHANGED storeVars
    /\ UNCHANGED agentVars
    /\ UNCHANGED mqttVars
    /\ UNCHANGED scanVars
    /\ UNCHANGED nameVars
    /\ UNCHANGED swapVars
    /\ UNCHANGED lifeVars
    /\ UNCHANGED visitVars
    /\ UNCHANGED pingVars
    /\ UNCHANGED pubVars
    /\ UNCHANGED brokerVars
    /\ UNCHANGED walkVars

\* the caller has the result, main.py:143-158
CollectReturn ==
    /\ collect_call # NoCall
    /\ collect_call' = NoCall
    /\ collect_result' = NoResult
    /\ UNCHANGED storeVars
    /\ UNCHANGED agentVars
    /\ UNCHANGED mqttVars
    /\ UNCHANGED scanVars
    /\ UNCHANGED nameVars
    /\ UNCHANGED swapVars
    /\ UNCHANGED lifeVars
    /\ UNCHANGED visitVars
    /\ UNCHANGED pingVars
    /\ UNCHANGED pubVars
    /\ UNCHANGED brokerVars
    /\ UNCHANGED walkVars

NextCollectors == CollectAll \/ CollectReturn

SpecCollectors == Init /\ [][NextCollectors]_vars

----------------------------------------------------------------------------
(* Name resolution: MachineInfo.display_name, src/src/core/models.py *)

\* display_name returning the first non-empty slot (a mutant)
DisplayNameFirstNonEmpty(m) ==
    IF m.snmp_sysname # "" THEN m.snmp_sysname
    ELSE IF m.mdns_name # "" THEN m.mdns_name
    ELSE IF m.netbios_name # "" THEN m.netbios_name
    ELSE IF m.dns_name # "" THEN m.dns_name
    ELSE IF m.hostname # "" THEN m.hostname
    ELSE m.ip

\* MachineInfo.display_name, models.py:34-48
display_name(m) ==
    IF m.snmp_sysname # "" /\ m.snmp_sysname # "unknown" THEN m.snmp_sysname
    ELSE IF m.mdns_name # "" /\ m.mdns_name # "unknown" THEN m.mdns_name
    ELSE IF m.netbios_name # "" /\ m.netbios_name # "unknown" THEN m.netbios_name
    ELSE IF m.dns_name # "" /\ m.dns_name # "unknown" THEN m.dns_name
    ELSE IF m.hostname # "" /\ m.hostname # "unknown" THEN m.hostname
    ELSE m.ip

\* the values a name slot takes: empty, the placeholder of the scanner and of
\* the collectors, or a name
SlotValues(name) == {"", "unknown", name}

NamedMachines ==
    { [MachineInfo("10.0.0.5") EXCEPT !.snmp_sysname = sys, !.mdns_name = mdns,
                                      !.netbios_name = netbios, !.dns_name = dns,
                                      !.hostname = host] :
        sys \in SlotValues("sys.lan"), mdns \in SlotValues("host.local"),
        netbios \in SlotValues("NBHOST"), dns \in SlotValues("host.example"),
        host \in SlotValues("router") }

----------------------------------------------------------------------------
(* Specification of the name resolution: the devices endpoint reads the *)
(* display_name of a machine (api.py:521).                              *)

ReadDisplayName ==
    /\ named = NoMachine
    /\ \E m \in NamedMachines :
          /\ named' = m
          /\ display' = display_name(m)
    /\ UNCHANGED storeVars
    /\ UNCHANGED agentVars
    /\ UNCHANGED mqttVars
    /\ UNCHANGED scanVars
    /\ UNCHANGED collVars
    /\ UNCHANGED swapVars
    /\ UNCHANGED lifeVars
    /\ UNCHANGED visitVars
    /\ UNCHANGED pingVars
    /\ UNCHANGED pubVars
    /\ UNCHANGED brokerVars
    /\ UNCHANGED walkVars

DisplayNameUsed ==
    /\ named # NoMachine
    /\ named' = NoMachine
    /\ display' = ""
    /\ UNCHANGED storeVars
    /\ UNCHANGED agentVars
    /\ UNCHANGED mqttVars
    /\ UNCHANGED scanVars
    /\ UNCHANGED collVars
    /\ UNCHANGED swapVars
    /\ UNCHANGED lifeVars
    /\ UNCHANGED visitVars
    /\ UNCHANGED pingVars
    /\ UNCHANGED pubVars
    /\ UNCHANGED brokerVars
    /\ UNCHANGED walkVars

NextNames == ReadDisplayName \/ DisplayNameUsed

SpecNames == Init /\ [][NextNames]_vars

----------------------------------------------------------------------------
(* The rebuild of the projection step by step: SimpleSNMPAgent._update_data, *)
(* snmp_agent.py:409-435, and the callbacks of the event loop it shares with *)
(* the datagram handler.                                                     *)

\* an event loop that could start a callback while another is between two of
\* its statements, as threads would (a mutant)
EventLoopPreemptive == TRUE

\* the asyncio event loop starts a callback only when no other callback is
\* running: _update_data (409-435) and datagram_received (346-352) have no
\* await, so each runs to its end once started
EventLoopFree == update_pc = "idle" /\ request = NoRequest

\* _update_data, snmp_agent.py:411-412: both maps are cleared
update_data_clear ==
    /\ update_pc = "idle"
    /\ update_pc' = "cleared"
    /\ oid_data' = <<>>
    /\ ip_to_index' = [ip \in {} |-> 0]
    /\ UNCHANGED <<community_read, sorted_oids, request, response, polled>>

\* _update_data, snmp_agent.py:414-429: the index mapping, the scalars and the
\* rows of every machine are written
update_data_fill ==
    LET pairs == ProjectedPairs
        keys  == {p[1] : p \in pairs}
        snaps == {ip \in IPs : HasSnapshot(ip)}
    IN
    /\ update_pc = "cleared"
    /\ update_pc' = "filled"
    /\ oid_data' = [o \in keys |-> (CHOOSE p \in pairs : p[1] = o)[2]]
    /\ ip_to_index' = [ip \in snaps |-> IndexOf(snaps, ip)]
    /\ UNCHANGED <<community_read, sorted_oids, request, response, polled>>

\* _update_data, snmp_agent.py:432-435: the sorted index is replaced
update_data_sort ==
    /\ update_pc = "filled"
    /\ update_pc' = "idle"
    /\ sorted_oids' = SortOids(DOMAIN oid_data)
    /\ UNCHANGED <<community_read, oid_data, ip_to_index, request, response, polled>>

----------------------------------------------------------------------------
(* Specification of the rebuild interleaved with the datagram handler and *)
(* the collection loop, as the event loop schedules them.                 *)

SwapRequests ==
    { Request(kind, "public", 41, <<oid>>, 0, 0) :
        kind \in {"get", "getnext"}, oid \in {MACHINE_COUNT, MACHINE_ENTRY(2) \o <<1>>} }

SwapCollect ==
    /\ EventLoopFree
    /\ CollectSnapshot

SwapClear ==
    /\ EventLoopFree
    /\ update_data_clear
    /\ UNCHANGED storeVars
    /\ UNCHANGED mqttVars
    /\ UNCHANGED scanVars
    /\ UNCHANGED <<collVars, nameVars, lifeVars, visitVars, pingVars, pubVars, brokerVars, walkVars>>

SwapFill ==
    /\ update_data_fill
    /\ UNCHANGED storeVars
    /\ UNCHANGED mqttVars
    /\ UNCHANGED scanVars
    /\ UNCHANGED <<collVars, nameVars, lifeVars, visitVars, pingVars, pubVars, brokerVars, walkVars>>

SwapSort ==
    /\ update_data_sort
    /\ UNCHANGED storeVars
    /\ UNCHANGED mqttVars
    /\ UNCHANGED scanVars
    /\ UNCHANGED <<collVars, nameVars, lifeVars, visitVars, pingVars, pubVars, brokerVars, walkVars>>

SwapDatagram ==
    /\ EventLoopFree
    /\ \E req \in SwapRequests : datagram_received(req)

NextSwap == SwapCollect \/ SwapClear \/ SwapFill \/ SwapSort \/ SwapDatagram \/ DatagramDone

SpecSwap == InitAgent /\ [][NextSwap]_vars

----------------------------------------------------------------------------
(* Specification of a walk: a manager sends GETNEXT for an OID, reads the  *)
(* OID of the binding it is answered with and sends GETNEXT for that one,  *)
(* until it is answered endOfMibView; the store and the projection are     *)
(* left alone while it walks. A manager that walks sends its next request, *)
(* and the agent answers it.                                               *)

\* the OIDs a walk starts from: below the subtree, its root, a scalar, a cell,
\* a row that is not there and an OID past the last one
WalkStarts ==
    { <<1>>, HW_AGGREGATOR, MACHINE_COUNT, CPU_ENTRY(2) \o <<1>>,
      MACHINE_ENTRY(2) \o <<0>>, HW_AGGREGATOR \o <<9>> }

WalkOthers ==
    /\ UNCHANGED storeVars
    /\ UNCHANGED mqttVars
    /\ UNCHANGED scanVars
    /\ UNCHANGED <<collVars, nameVars, swapVars, lifeVars, visitVars, pingVars, pubVars, brokerVars>>

WalkCollect == walk_pc = "none" /\ CollectSnapshot

WalkUpdateData == walk_pc = "none" /\ UpdateData

\* the manager begins a walk
WalkBegin ==
    /\ walk_pc = "none"
    /\ request = NoRequest
    /\ \E oid \in WalkStarts :
          /\ walk_start' = oid
          /\ walk_at' = oid
    /\ walk_pc' = "walking"
    /\ walk_seen' = <<>>
    /\ UNCHANGED agentVars
    /\ WalkOthers

\* the manager's GETNEXT arrives: SNMPProtocol.datagram_received,
\* snmp_agent.py:346-352
WalkRequest ==
    /\ walk_pc = "walking"
    /\ datagram_received(Request("getnext", "public", 41, <<walk_at>>, 0, 0))

\* the response was sent (snmp_agent.py:350-352) and the manager reads its
\* binding: the walk is over at endOfMibView and goes on from the OID of the
\* binding otherwise
WalkResponse ==
    /\ walk_pc = "walking"
    /\ request # NoRequest
    /\ request' = NoRequest
    /\ response' = NoResponse
    /\ LET bind == response.var_binds[1] IN
       IF bind.value = endOfMibView
       THEN /\ walk_pc' = "ended"
            /\ UNCHANGED <<walk_start, walk_at, walk_seen>>
       ELSE /\ walk_at' = bind.oid
            /\ walk_seen' = Append(walk_seen, bind.oid)
            /\ UNCHANGED <<walk_pc, walk_start>>
    /\ UNCHANGED <<community_read, oid_data, sorted_oids, ip_to_index, polled>>
    /\ WalkOthers

NextWalk == WalkCollect \/ WalkUpdateData \/ WalkBegin \/ WalkRequest \/ WalkResponse

SpecWalk ==
    InitAgent /\ [][NextWalk]_vars /\ WF_vars(WalkRequest) /\ WF_vars(WalkResponse)

----------------------------------------------------------------------------
(* Start and shutdown of the two programs: SNMPAgentApplication of         *)
(* src/src/main.py (with the agent of snmp_agent.py) and the lifespan      *)
(* handler of src/src/web/api.py. A periodic task is asleep between two    *)
(* iterations ("sleeping"), suspended at an await inside the item it works *)
(* on ("awaiting"), or finished ("done").                                  *)

\* the number of items (hosts, devices, OIDs) a loop visits in an iteration
ItemsPerCycle == 2

\* the periodic tasks each program creates: main.py:77-80 with
\* snmp_agent.py:382, and api.py:206-208
AppTasks(a) ==
    IF a = "main" THEN {"discovery", "collection", "update"}
    ELSE IF a = "web" THEN {"discovery", "collection", "mqtt_publish"}
    ELSE {}

\* the flag the while condition of the loop reads: the agent's _running for
\* _update_loop (snmp_agent.py:405), the program's for the others
LoopFlag(t) == IF t = "update" THEN running.agent ELSE running.app

Sleeping == [st |-> "sleeping", item |-> 0]

Awaiting(k) == [st |-> "awaiting", item |-> k]

Done == [st |-> "done", item |-> 0]

\* SNMPAgentApplication.start, main.py:63-85, with SimpleSNMPAgent.start,
\* snmp_agent.py:377-392
start_main ==
    /\ app = "none"
    /\ app' = "main"
    /\ running' = [app |-> TRUE, agent |-> TRUE]
    /\ task' = [t \in Tasks |-> IF t \in AppTasks("main") THEN Sleeping ELSE NoTask]
    /\ transport' = [udp |-> "open", mqtt |-> "none"]
    /\ UNCHANGED <<stop_pc, cancel_req>>

\* lifespan before the yield, api.py:148-211
start_web ==
    /\ app = "none"
    /\ app' = "web"
    /\ running' = [app |-> TRUE, agent |-> FALSE]
    /\ task' = [t \in Tasks |-> IF t \in AppTasks("web") THEN Sleeping ELSE NoTask]
    /\ transport' = [udp |-> "none", mqtt |-> "open"]
    /\ UNCHANGED <<stop_pc, cancel_req>>

\* a loop wakes from the sleep between two iterations: `while _running` is
\* read, and the first item is begun or the loop is left
task_wake(t) ==
    /\ task[t].st = "sleeping"
    /\ t \notin cancel_req
    /\ task' = [task EXCEPT ![t] = IF LoopFlag(t) THEN Awaiting(1) ELSE Done]
    /\ UNCHANGED <<app, stop_pc, running, cancel_req, transport>>

\* the await of the item returns: the loop goes on to the next item, or to the
\* sleep after the last one (main.py:141-164, api.py:296-316 and 331-424)
task_next_item(t) ==
    /\ task[t].st = "awaiting"
    /\ t \notin cancel_req
    /\ task' = [task EXCEPT ![t] = IF task[t].item < ItemsPerCycle
                                   THEN Awaiting(task[t].item + 1) ELSE Sleeping]
    /\ UNCHANGED <<app, stop_pc, running, cancel_req, transport>>

\* the CancelledError of a cancel() is raised at the await the task is
\* suspended in; it is no Exception, so no `except Exception` of the loops
\* catches it and the task ends
task_cancelled(t) ==
    /\ t \in cancel_req
    /\ task[t].st \in {"sleeping", "awaiting"}
    /\ task' = [task EXCEPT ![t] = Done]
    /\ cancel_req' = cancel_req \ {t}
    /\ UNCHANGED <<app, stop_pc, running, transport>>

\* the tasks that can still run
Alive(ts) == {t \in ts : task[t].st \in {"sleeping", "awaiting"}}

\* SNMPAgentApplication.stop, main.py:87-97: the flag is cleared, the discovery
\* task is cancelled and awaited
main_stop_begin ==
    /\ app = "main"
    /\ stop_pc = "running"
    /\ stop_pc' = "await_discovery"
    /\ running' = [running EXCEPT !.app = FALSE]
    /\ cancel_req' = cancel_req \cup Alive({"discovery"})
    /\ UNCHANGED <<app, task, transport>>

\* main.py:99-104: the collection task is cancelled and awaited
main_stop_collection ==
    /\ stop_pc = "await_discovery"
    /\ task["discovery"].st = "done"
    /\ stop_pc' = "await_collection"
    /\ cancel_req' = cancel_req \cup Alive({"collection"})
    /\ UNCHANGED <<app, running, task, transport>>

\* main.py:106 with SimpleSNMPAgent.stop, snmp_agent.py:395-401: the agent's
\* flag is cleared and the UDP transport closed
main_stop_agent ==
    /\ stop_pc = "await_collection"
    /\ task["collection"].st = "done"
    /\ stop_pc' = "stopped"
    /\ running' = [running EXCEPT !.agent = FALSE]
    /\ transport' = [transport EXCEPT !.udp = "closed"]
    /\ UNCHANGED <<app, cancel_req, task>>

\* lifespan after the yield, api.py:215-225, with MQTTBrokerService.stop up to
\* its first await, mqtt_broker.py:86-95: the flag is cleared, the discovery and
\* the collection task are cancelled
web_stop_begin ==
    /\ app = "web"
    /\ stop_pc = "running"
    /\ stop_pc' = "mqtt_stop"
    /\ running' = [running EXCEPT !.app = FALSE]
    /\ cancel_req' = cancel_req \cup Alive({"discovery", "collection"})
    /\ UNCHANGED <<app, task, transport>>

\* MQTTBrokerService.stop, mqtt_broker.py:97-103: the client is disconnected
web_stop_mqtt ==
    /\ stop_pc = "mqtt_stop"
    /\ stop_pc' = "stopped"
    /\ transport' = [transport EXCEPT !.mqtt = "closed"]
    /\ UNCHANGED <<app, running, cancel_req, task>>

----------------------------------------------------------------------------
(* Specification of start and shutdown *)

LifeOthers ==
    /\ UNCHANGED storeVars
    /\ UNCHANGED agentVars
    /\ UNCHANGED mqttVars
    /\ UNCHANGED scanVars
    /\ UNCHANGED <<collVars, nameVars, swapVars, visitVars, pingVars, pubVars, brokerVars, walkVars>>

StartMain == start_main /\ LifeOthers

StartWeb == start_web /\ LifeOthers

TaskWake == \E t \in Tasks : task_wake(t) /\ LifeOthers

TaskNextItem == \E t \in Tasks : task_next_item(t) /\ LifeOthers

TaskCancelled == \E t \in Tasks : task_cancelled(t) /\ LifeOthers

MainStopBegin == main_stop_begin /\ LifeOthers

MainStopCollection == main_stop_collection /\ LifeOthers

MainStopAgent == main_stop_agent /\ LifeOthers

WebStopBegin == web_stop_begin /\ LifeOthers

WebStopMqtt == web_stop_mqtt /\ LifeOthers

NextLife ==
    \/ StartMain
    \/ StartWeb
    \/ TaskWake
    \/ TaskNextItem
    \/ TaskCancelled
    \/ MainStopBegin
    \/ MainStopCollection
    \/ MainStopAgent
    \/ WebStopBegin
    \/ WebStopMqtt

SpecLife == Init /\ [][NextLife]_vars

----------------------------------------------------------------------------
(* Specification of the projection: discovery adds machines, the collection *)
(* loop stores snapshots, and the agent's update loop rebuilds the          *)
(* projection from the store.                                               *)

\* the discovery loop adds the hosts that answered the ping sweep,
\* main.py:108-124 and api.py:264-282
DiscoverPinged ==
    \E ip \in IPs :
        /\ add_machine([MachineInfo(ip) EXCEPT !.collection_method = "ping"])
        /\ UNCHANGED lastMerge

NextProjection == DiscoverPinged \/ CollectSnapshot \/ UpdateData

SpecProjection == InitAgent /\ [][NextProjection]_vars

----------------------------------------------------------------------------
(* Specification of the ping sweep *)

PingSweep ==
    /\ \E h \in 0..MaxHostBits : ping_sweep(h)
    /\ UNCHANGED storeVars
    /\ UNCHANGED agentVars
    /\ UNCHANGED mqttVars
    /\ UNCHANGED restVars

Ping ==
    /\ ping_with_semaphore
    /\ UNCHANGED storeVars
    /\ UNCHANGED agentVars
    /\ UNCHANGED mqttVars
    /\ UNCHANGED restVars

SweepReturn ==
    /\ sweep_return
    /\ UNCHANGED storeVars
    /\ UNCHANGED agentVars
    /\ UNCHANGED mqttVars
    /\ UNCHANGED restVars

NextScan == PingSweep \/ Ping \/ SweepReturn

SpecScan == Init /\ [][NextScan]_vars

----------------------------------------------------------------------------
(* Claims about the fleet store *)

\* C1 (as stated): after any sequence of add_machine calls on one ip the stored
\* collection_method has the highest rank among all the inputs under the ladder
\* snmp(4) > ssh(3) > local(2) > arp(1) = ping(1) > other(0), and the stored rank
\* never decreases from one call to the next.
C1_MaxUnderSpecLadder ==
    \A ip \in IPs :
        HasMachine(ip) /\ hist[ip].addOnly =>
            /\ SpecLadder(Stored(ip).collection_method) = hist[ip].maxSpec
            /\ (lastOp.op = "add_machine" /\ lastOp.ip = ip /\ lastOp.known =>
                    SpecLadder(Stored(ip).collection_method) >= SpecLadder(lastOp.preMethod))

\* C1 (amended): the same with ping ranked 0, as the code's table has it:
\* snmp(4) > ssh(3) > local(2) > arp(1) > ping(0) = other(0); the stored method
\* has the highest rank among all the inputs and the stored rank never decreases.
C1_MaxUnderCodeLadder ==
    \A ip \in IPs :
        HasMachine(ip) /\ hist[ip].addOnly =>
            /\ AmendedLadder(Stored(ip).collection_method) = hist[ip].maxAmended
            /\ (lastOp.op = "add_machine" /\ lastOp.ip = ip /\ lastOp.known =>
                    AmendedLadder(Stored(ip).collection_method)
                        >= AmendedLadder(lastOp.preMethod))

\* C1 witness: an entry built by add_machine only, holding snmp, was just given
\* a ping record and still holds snmp
C1_Witness ==
    \E ip \in IPs :
        /\ HasMachine(ip) /\ hist[ip].addOnly
        /\ lastOp.op = "add_machine" /\ lastOp.ip = ip /\ lastOp.known
        /\ lastOp.preMethod = "snmp" /\ lastOp.inMethod = "ping"
        /\ Stored(ip).collection_method = "snmp"

\* C2: an add_machine merge on an ip whose stored snmp_active is true leaves it
\* true, whatever the incoming snmp_active is.
C2_SnmpActiveSticky ==
    lastOp.op = "add_machine" /\ lastOp.known /\ lastOp.preActive =>
        Stored(lastOp.ip).snmp_active

\* C2 witness: a merge of a record with snmp_active false into an entry with
\* snmp_active true has happened, and the entry still has it true
C2_Witness ==
    /\ lastOp.op = "add_machine" /\ lastOp.known
    /\ lastOp.preActive /\ ~lastOp.inActive
    /\ Stored(lastOp.ip).snmp_active

\* C3 (as stated): over any interleaving of add_machine and update_snapshot on
\* one ip the stored method's rank never decreases and the stored snmp_active
\* never goes from true to false.
C3_AuthoritySurvives ==
    lastOp.op \in {"add_machine", "update_snapshot"} /\ lastOp.known =>
        /\ SpecLadder(Stored(lastOp.ip).collection_method) >= SpecLadder(lastOp.preMethod)
        /\ (lastOp.preActive => Stored(lastOp.ip).snmp_active)

\* C4: for every ip that has a snapshot, the snapshot's machine is the same
\* MachineInfo as the registry's entry for that ip, also after later merges.
C4_SnapshotSharesMachine ==
    \A ip \in IPs :
        HasSnapshot(ip) =>
            /\ HasMachine(ip)
            /\ heap[snapshots[ip].machine] = heap[machines[ip]]

\* C4 witness: after a snapshot was stored, add_machine promoted the entry from
\* ssh to snmp, and the snapshot's machine shows the promoted method
C4_Witness ==
    \E ip \in IPs :
        /\ HasSnapshot(ip)
        /\ lastOp.op = "add_machine" /\ lastOp.ip = ip /\ lastOp.known
        /\ lastOp.preMethod = "ssh" /\ lastOp.inMethod = "snmp"
        /\ heap[snapshots[ip].machine].collection_method = "snmp"

----------------------------------------------------------------------------
(* Claims about the SNMP agent, checked under SpecAgent *)

\* the projected OIDs strictly greater than oid
Greater(oid) == {k \in DOMAIN oid_data : TupleLess(oid, k)}

\* the request in hand was answered and is of the given kind
Answered(kind) == request.kind = kind /\ response.sent

\* C5: GETNEXT is total over the projection: every requested OID that has a
\* greater projected OID is answered with the least such OID and its value, and
\* every requested OID at or beyond the largest projected OID is answered with
\* (the requested OID, endOfMibView).
C5_GetNextTotal ==
    Answered("getnext") =>
        /\ Len(response.var_binds) = Len(request.oids)
        /\ \A i \in 1..Len(request.oids) :
              LET O == request.oids[i]
                  b == response.var_binds[i]
              IN IF Greater(O) # {}
                 THEN /\ b.oid \in Greater(O)
                      /\ \A k \in Greater(O) : b.oid = k \/ TupleLess(b.oid, k)
                      /\ b.value.type \in {"Integer32", "Counter64", "OctetString"}
                      /\ b.value.v = oid_data[b.oid]
                 ELSE b = VarBind(O, endOfMibView)

\* C5 witness: with a machine projected, GETNEXT on the last scalar was answered
\* with the first cell of the machine table and GETNEXT on the largest key with
\* endOfMibView.
C5_Witness ==
    /\ Answered("getnext")
    /\ Len(sorted_oids) > 3
    /\ request.oids = <<MACHINE_COUNT, sorted_oids[Len(sorted_oids)]>>
    /\ response.var_binds[1].oid = MACHINE_ENTRY(1) \o <<1>>
    /\ response.var_binds[2].value = endOfMibView

\* C6: in the answer to a GET every requested OID that is a key of the
\* projection carries its value, typed Integer32, Counter64 or OctetString, and
\* every requested OID that is not a key carries noSuchInstance; the bindings
\* are those of the request, in order.
C6_GetPresentOrNoSuchInstance ==
    Answered("get") =>
        /\ Len(response.var_binds) = Len(request.oids)
        /\ \A i \in 1..Len(request.oids) :
              LET O == request.oids[i]
                  b == response.var_binds[i]
              IN /\ b.oid = O
                 /\ IF O \in DOMAIN oid_data
                    THEN /\ b.value.v = oid_data[O]
                         /\ b.value.type =
                               IF oid_data[O].py = "str" THEN "OctetString"
                               ELSE IF oid_data[O].hi > 0 THEN "Counter64"
                               ELSE "Integer32"
                    ELSE b.value = noSuchInstance

\* C6 witness: a GET for the machine count of an empty store (the integer 0)
\* and for an OID that is not projected was answered.
C6_Witness ==
    /\ Answered("get")
    /\ request.oids = <<MACHINE_COUNT, <<1>>>>
    /\ oid_data[MACHINE_COUNT] = Small(0)
    /\ response.var_binds[1].value = [type |-> "Integer32", v |-> Small(0)]
    /\ response.var_binds[2].value = noSuchInstance

\* the sum of f[i] for i in lo..hi
RECURSIVE SumOver(_, _, _)
SumOver(f, lo, hi) == IF lo > hi THEN 0 ELSE f[hi] + SumOver(f, lo, hi - 1)

\* the bindings of one GETBULK repeater stream from oid: its successors up to
\* max_rep, and one endOfMibView if they run out first
StreamLen(oid, max_rep) == Min(max_rep, Cardinality(Greater(oid)) + 1)

C8_AnswersIffConfiguredCommunity ==
    request.kind \in {"get", "getnext", "getbulk", "set"} =>
        (response.sent <=> request.community = community_read)

----------------------------------------------------------------------------
(* Claim about the rebroadcast, checked under SpecRebroadcast *)

\* C9 (as stated): once a publish cycle has polled a value for the custom OID
\* and the projection has been rebuilt after it, a GET for rebroadcast_oid on
\* the local agent is answered with the value last polled.
C9_RebroadcastVisible ==
    (Answered("get") /\ polled.value # NoValue /\ polled.rebuilt) =>
        \A i \in 1..Len(request.oids) :
            request.oids[i] = RebroadcastOid =>
                /\ response.var_binds[i].oid = RebroadcastOid
                /\ response.var_binds[i].value.v = polled.value

----------------------------------------------------------------------------
(* Claim about the MQTT service, checked under SpecMqtt *)

\* C10: the reconnect interval after f failed attempts in a row is 5 * 2^f
\* seconds capped at 300 (5, 10, 20, ...), the sleep that precedes an attempt
\* lasts exactly that long, a successful connect puts the interval back to 5,
\* and the interval is always between 5 and 300.
C10_ReconnectBackoff ==
    /\ reconnect_interval >= 5
    /\ reconnect_interval <= 300
    /\ reconnect_interval = Min(5 * 2 ^ fail_streak, 300)
    /\ fail_streak = 0 => reconnect_interval = 5
    /\ reconnect_task \in {"sleeping", "connecting"} => sleeping_for = reconnect_interval

\* C10 witness: after seven failed attempts in a row the task sleeps 300
\* seconds before the next one.
C10_Witness ==
    /\ mqtt_running
    /\ ~client_connected
    /\ fail_streak = 7
    /\ reconnect_task = "sleeping"
    /\ sleeping_for = 300

\* C11: the connection goes from connected to disconnected only on a publish
\* error (or stop), and from disconnected to connected only through a connect
\* attempt; a publish that meets a broker error reports failure and leaves the
\* service disconnected, and a publish issued while not running or not
\* connected is refused without a broker call and changes nothing else.
C11_ConnectionStateMachine ==
    [][ /\ (client_connected /\ ~client_connected') =>
              (last_publish' = "failed" \/ (mqtt_running /\ ~mqtt_running'))
        /\ (~client_connected /\ client_connected') =>
              (reconnect_task = "connecting" \/ (reconnect_task = "none" /\ mqtt_running'))
        /\ (last_publish' # last_publish /\ last_publish' = "failed") =>
              (mqtt_running /\ client_connected /\ ~client_connected')
        /\ (last_publish' # last_publish /\ last_publish' = "sent") =>
              (mqtt_running /\ client_connected /\ client_connected')
        /\ (last_publish' # last_publish /\ last_publish' = "refused") =>
              /\ ~mqtt_running \/ ~client_connected
              /\ UNCHANGED <<mqtt_running, client_connected, reconnect_interval,
                             reconnect_task>> ]_vars

\* C11 witness: a publish on a connected, running service met a broker error:
\* it reported failure and the service is disconnected, the reconnect task
\* being about to try again.
C11_Witness ==
    /\ mqtt_running
    /\ last_publish = "failed"
    /\ ~client_connected
    /\ reconnect_task = "connecting"
    /\ fail_streak = 0

----------------------------------------------------------------------------
(* Claims about the merge of add_machine, checked under SpecMerge *)

\* C13: an add_machine merge overwrites the stored hostname exactly when the
\* incoming hostname is non-empty, is not "unknown" and is not the ip; otherwise
\* the stored hostname stays as it was.
C13_HostnameOverwrite ==
    (lastOp.op = "add_machine" /\ lastOp.known) =>
        Stored(lastOp.ip).hostname =
            IF lastMerge.inHostname \notin {"", "unknown", lastOp.ip}
            THEN lastMerge.inHostname
            ELSE lastMerge.preHostname

\* C13 witness (the seed case): an entry holding hostname "router", method snmp
\* and snmp_active true was just given (ping, hostname "") and still holds all
\* three.
C13_Witness ==
    /\ lastOp.op = "add_machine"
    /\ lastOp.known
    /\ lastOp.inMethod = "ping"
    /\ lastMerge.inHostname = ""
    /\ lastMerge.preHostname = "router"
    /\ Stored(lastOp.ip).hostname = "router"
    /\ Stored(lastOp.ip).collection_method = "snmp"
    /\ Stored(lastOp.ip).snmp_active

\* C14 (as stated): after an add_machine merge the stored last_seen is the later
\* of the previously stored and the incoming timestamp.
C14_LastSeenNewer ==
    (lastOp.op = "add_machine" /\ lastOp.known) =>
        Stored(lastOp.ip).last_seen = Max(lastMerge.preLastSeen, lastMerge.inLastSeen)

----------------------------------------------------------------------------
(* Claims about discovery and collection, checked under SpecFleet *)

\* C12: a visit of the collection loop in which every method tried for the host
\* returned no snapshot or raised leaves machines, snapshots and the stored
\* MachineInfo objects exactly as they were.
C12_FailedCollectionKeepsStore ==
    [][ (lastOp'.op = "collect_failed" /\ lastOp' # lastOp) =>
            UNCHANGED <<heap, machines, snapshots>> ]_vars

\* C12 witness: a host whose snapshot came from SNMP was visited again, every
\* method failed, and the snapshot is still there.
C12_Witness ==
    /\ lastOp.op = "collect_failed"
    /\ lastOp.ip = "10.0.0.10"
    /\ HasSnapshot("10.0.0.10")
    /\ Stored("10.0.0.10").collection_method = "snmp"

\* what remove_machine(ip) does in a step: ip leaves both maps and the entries
\* of every other ip are the same objects with the same values
RemovesExactly(ip) ==
    /\ ~HasMachine(ip)'
    /\ ~HasSnapshot(ip)'
    /\ \A other \in IPs \ {ip} :
          /\ machines'[other] = machines[other]
          /\ snapshots'[other] = snapshots[other]
          /\ Stored(other)' = Stored(other)

\* C15 (as stated): an ip leaves the machines map only in a remove_machine(ip)
\* step, and that step removes exactly that ip from both maps.
C15_OnlyRemoveDeletes ==
    [][ /\ \A ip \in IPs :
              (HasMachine(ip) /\ ~HasMachine(ip)') =>
                  (lastOp'.op = "remove_machine" /\ lastOp'.ip = ip)
        /\ \A ip \in IPs :
              (lastOp'.op = "remove_machine" /\ lastOp'.ip = ip /\ lastOp' # lastOp) =>
                  RemovesExactly(ip)
      ]_vars

\* C15 (amended): an ip leaves the machines map only in a remove_machine(ip)
\* step or in a clear() step; add_machine, update_snapshot, discovery and
\* collection never remove one; remove_machine(ip) removes exactly that ip from
\* both maps and clear() empties both maps.
C15_OnlyRemoveOrClearDeletes ==
    [][ /\ \A ip \in IPs :
              (HasMachine(ip) /\ ~HasMachine(ip)') =>
                  \/ (lastOp'.op = "remove_machine" /\ lastOp'.ip = ip)
                  \/ lastOp'.op = "clear"
        /\ \A ip \in IPs :
              (lastOp'.op = "remove_machine" /\ lastOp'.ip = ip /\ lastOp' # lastOp) =>
                  RemovesExactly(ip)
        /\ lastOp'.op = "clear" => \A ip \in IPs : ~HasMachine(ip)' /\ ~HasSnapshot(ip)'
      ]_vars

\* C15 witness: 10.0.0.5 was removed while 10.0.0.10 keeps its machine and its
\* snapshot.
C15_Witness ==
    /\ lastOp.op = "remove_machine"
    /\ lastOp.ip = "10.0.0.5"
    /\ lastOp.known
    /\ ~HasMachine("10.0.0.5")
    /\ HasMachine("10.0.0.10")
    /\ HasSnapshot("10.0.0.10")

----------------------------------------------------------------------------
(* Further claims about the SNMP agent, checked under SpecAgent *)

\* C16: the arrival and the handling of any datagram (GET, GETNEXT, GETBULK,
\* SetRequest or malformed bytes) leaves the projection and the fleet store as
\* they were, and a SetRequest writes nothing: its answer carries no binding.
C16_AgentReadOnly ==
    [][ (request = NoRequest /\ request' # NoRequest) =>
            /\ UNCHANGED <<oid_data, sorted_oids, ip_to_index>>
            /\ UNCHANGED <<heap, machines, snapshots>>
            /\ request'.kind = "set" => response'.var_binds = <<>> ]_vars

\* C16 witness: a SetRequest naming the machine count, with the accepted
\* community, was handled while a machine is projected; the count is still 1.
C16_Witness ==
    /\ request.kind = "set"
    /\ request.community = "public"
    /\ request.oids = <<MACHINE_COUNT>>
    /\ response.sent
    /\ response.var_binds = <<>>
    /\ oid_data[MACHINE_COUNT] = Small(1)

----------------------------------------------------------------------------
(* Further claim about the rebroadcast, checked under SpecRebroadcast *)

\* C17 (as stated): the call update_custom_metric(ip, oid, value) made by the
\* publishing loop completes without raising; when the ip has a snapshot its
\* custom_metrics then hold value under oid, and when it has none the store is
\* unchanged.
C17_CustomMetricStored ==
    polled.value # NoValue =>
        /\ polled.call = "returned"
        /\ HasSnapshot(DeviceIp) =>
              /\ RebroadcastOid \in DOMAIN custom_metrics(snapshots[DeviceIp])
              /\ custom_metrics(snapshots[DeviceIp])[RebroadcastOid] = polled.value

----------------------------------------------------------------------------
(* Claim about the ping sweep, checked under SpecScan *)

\* the host addresses of a subnet with h host bits
HostAddresses(h) ==
    IF h <= 1 THEN 0..(2 ^ h - 1) ELSE 1..(2 ^ h - 2)

\* C18: a sweep of a subnet with more than 1024 addresses issues at most 256
\* pings, and a sweep of a subnet with at most 1024 addresses has, when it
\* returns, pinged every host address exactly once and nothing else; no
\* address is ever pinged twice in a sweep.
C18_PingSweepBound ==
    sweep_pc # "idle" =>
        /\ \A a \in DOMAIN pings : pings[a] <= 1
        /\ 2 ^ network > 1024 => Cardinality({a \in DOMAIN pings : pings[a] > 0}) <= 256
        /\ (sweep_pc = "done" /\ 2 ^ network <= 1024) =>
              \A a \in DOMAIN pings : pings[a] = IF a \in HostAddresses(network) THEN 1 ELSE 0

\* C18 witness: the sweep of a subnet of 2048 addresses returned after 256
\* pings.
C18_Witness ==
    /\ sweep_pc = "done"
    /\ 2 ^ network = 2048
    /\ Cardinality({a \in DOMAIN pings : pings[a] = 1}) = 256

----------------------------------------------------------------------------
(* Claims about the projection, checked under SpecProjection *)

\* the value of the machineCount scalar in the projection
machineCount == oid_data[MACHINE_COUNT]

\* C19: every rebuild of the projection leaves machineCount equal to the
\* number of machines in the store's registry, the machines without a
\* snapshot included.
C19_MachineCountKnownMachines ==
    [][UpdateData =>
          machineCount' = Small(Cardinality({ip \in IPs : HasMachine(ip)}))]_vars

\* the largest column number of a table of the MIB, mib_definitions.py:118
MaxColumn == 10

\* the table with the columns ENTRY(1), ENTRY(2), ... has a row at index idx
HasRow(ENTRY(_), idx) ==
    \E c \in 1..MaxColumn : (ENTRY(c) \o idx) \in DOMAIN oid_data

\* every machine with a snapshot has its rows in the six tables
RowsOfEveryTable ==
    \A ip \in IPs : HasSnapshot(ip) =>
        /\ ip \in DOMAIN ip_to_index
        /\ LET i == ip_to_index[ip]
               metrics == snapshots[ip].metrics
           IN /\ HasRow(MACHINE_ENTRY, <<i>>)
              /\ HasRow(CPU_ENTRY, <<i>>)
              /\ HasRow(MEMORY_ENTRY, <<i>>)
              /\ HasRow(POWER_ENTRY, <<i>>)
              /\ \A d \in 1..Len(metrics.devices) : HasRow(STORAGE_ENTRY, <<i, d>>)
              /\ \A n \in 1..Len(metrics.interfaces) : HasRow(NETWORK_ENTRY, <<i, n>>)

\* C20: every rebuild of the projection leaves, for every machine with a
\* snapshot and index i, a row at i in the machine, CPU, memory and power
\* tables, a storage row at i.d for each of its storage devices and a network
\* row at i.n for each of its interfaces.
C20_RowsOfEveryTable == [][UpdateData => RowsOfEveryTable']_vars

----------------------------------------------------------------------------
(* Further claims about the SNMP agent, checked under SpecAgent *)

\* C21: a datagram that does not decode or whose dispatch raises is dropped:
\* handle_snmp_message returns no response, nothing is sent, the projection is
\* as it was, and when the handler returns the agent is ready for the next
\* datagram.
C21_FailedDatagramDropped ==
    [][ /\ (request = NoRequest /\ request' # NoRequest /\ request'.kind \in FailingKinds) =>
              /\ response' = NoResponse
              /\ UNCHANGED <<oid_data, sorted_oids, ip_to_index>>
        /\ (request.kind \in FailingKinds /\ request' # request) =>
              /\ ~response.sent
              /\ request' = NoRequest
              /\ UNCHANGED <<oid_data, sorted_oids, ip_to_index>> ]_vars

\* C21 witness: a datagram whose dispatch raised is being handled by an agent
\* that projects a machine, and no response is to be sent.
C21_Witness ==
    /\ request.kind = "dispatch_error"
    /\ response = NoResponse
    /\ oid_data[MACHINE_COUNT] = Small(1)

----------------------------------------------------------------------------
(* Claim about the collectors, checked under SpecCollectors *)

\* the sub-steps of the call that failed
FailedSteps == {step \in SubSteps : collect_call.out[step] # "ok"}

\* C22 (as stated): collect_all returns a snapshot or nothing and never
\* raises, and every sub-step that failed is recorded in the errors of the
\* snapshot unless no snapshot is returned.
C22_FailuresRecorded ==
    collect_call # NoCall =>
        /\ collect_result.kind \in {"snapshot", "None"}
        /\ collect_result.kind = "snapshot" => FailedSteps \subseteq collect_result.errors

\* the part of C22 that the collectors keep: no exception leaves collect_all
C22_NeverRaises ==
    collect_call # NoCall => collect_result.kind \in {"snapshot", "None"}

----------------------------------------------------------------------------
(* Claim about the name resolution, checked under SpecNames *)

\* the name slots of m in the order of their priority, the ip last
NameSlots(m) ==
    <<m.snmp_sysname, m.mdns_name, m.netbios_name, m.dns_name, m.hostname, m.ip>>

\* the first element of slots that is not in skipped; the last element when
\* there is none
FirstNotIn(slots, skipped) ==
    LET found == {i \in 1..(Len(slots) - 1) : slots[i] \notin skipped}
    IN IF found = {} THEN slots[Len(slots)]
       ELSE slots[CHOOSE i \in found : \A j \in found : i <= j]

\* C23 (as stated): display_name is the first non-empty value of
\* (snmp_sysname, mdns_name, netbios_name, dns_name, hostname, ip).
C23_FirstNonEmpty ==
    named # NoMachine => display = FirstNotIn(NameSlots(named), {""})

\* C23 (amended): display_name is the first value of (snmp_sysname, mdns_name,
\* netbios_name, dns_name, hostname) that is neither empty nor the placeholder
\* "unknown", and the ip when there is none.
C23_FirstKnown ==
    named # NoMachine => display = FirstNotIn(NameSlots(named), {"", "unknown"})

\* C23 witness: the sysName slot holds the placeholder, the mDNS slot is empty
\* and the NetBIOS name is shown.
C23_Witness ==
    /\ named # NoMachine
    /\ named.snmp_sysname = "unknown"
    /\ named.mdns_name = ""
    /\ named.netbios_name = "NBHOST"
    /\ named.hostname = "router"
    /\ display = "NBHOST"

----------------------------------------------------------------------------
(* Further claim about the fleet store, checked under SpecStore *)

\* C24 (as stated): update_snapshot on an ip already in the store leaves
\* machines[ip] with the field values add_machine would have given it from the
\* same prior state, and the stored snapshot's machine is that record.
C24_UpdateSnapshotMergesAsAddMachine ==
    [][ \A ip \in StoreIPs : \A machine \in CollectorMachines(ip) : \A metrics \in StoreMetrics :
          (HasMachine(ip) /\ update_snapshot(machine, metrics)) =>
              /\ heap'[machines'[ip]] = MergeMachine(Stored(ip), machine)
              /\ snapshots'[ip].machine = machines'[ip] ]_vars

----------------------------------------------------------------------------
(* Claim about the rebuild, checked under SpecSwap *)

\* the projection is whole: the scalars are there, the machine count is the
\* number of indexed machines, every indexed machine has all the columns of
\* its machine, CPU and memory rows, and the sorted index lists exactly the keys
\* of the map, in ascending order
ProjectionComplete ==
    /\ {AGENT_VERSION, AGENT_UPTIME, MACHINE_COUNT} \subseteq DOMAIN oid_data
    /\ oid_data[MACHINE_COUNT] = Small(Cardinality(DOMAIN ip_to_index))
    /\ \A ip \in DOMAIN ip_to_index :
          LET i == ip_to_index[ip] IN
          /\ \A c \in 1..6 : (MACHINE_ENTRY(c) \o <<i>>) \in DOMAIN oid_data
          /\ \A c \in 1..10 : (CPU_ENTRY(c) \o <<i>>) \in DOMAIN oid_data
          /\ \A c \in 1..5 : (MEMORY_ENTRY(c) \o <<i>>) \in DOMAIN oid_data
          /\ oid_data[MACHINE_ENTRY(2) \o <<i>>] = PyStr(ip)
    /\ {sorted_oids[k] : k \in 1..Len(sorted_oids)} = DOMAIN oid_data
    /\ \A k \in 1..(Len(sorted_oids) - 1) : TupleLess(sorted_oids[k], sorted_oids[k + 1])

\* C25: under every interleaving of the rebuild with the datagram handler, the
\* handler works on a whole projection: never on an empty or partly written
\* map, never with a sorted index that disagrees with the map.
C25_HandlerSeesWholeProjection ==
    request # NoRequest => ProjectionComplete

\* C25 witness: a datagram is handled between two rebuilds, after the store
\* changed: the handler sees the whole previous projection (one machine) while
\* the store already holds two snapshots.
C25_Witness ==
    /\ request # NoRequest
    /\ update_pc = "idle"
    /\ oid_data[MACHINE_COUNT] = Small(1)
    /\ \A ip \in IPs : HasSnapshot(ip)

----------------------------------------------------------------------------
(* Claims about the shutdown, checked under SpecLife *)

\* C26 (as stated): when a transport is closed, every periodic task of the
\* program has already terminated.
C26_TasksEndBeforeTransportsClose ==
    (\E x \in DOMAIN transport : transport[x] = "closed") =>
        \A t \in AppTasks(app) : task[t].st = "done"

\* the shutdown routine of the program has begun: the flag is cleared and the
\* cancel() calls of its first statements are made
ShutdownSignalled == stop_pc # "running"

\* the step begins an item of task t
BeginsItem(t) == task'[t].st = "awaiting" /\ task'[t] # task[t]

\* C27 (as stated): once the shutdown signal is delivered, neither the
\* collection loop nor the MQTT publishing loop begins a further item.
C27_NoItemAfterShutdown ==
    [][ \A t \in {"collection", "mqtt_publish"} : ShutdownSignalled => ~BeginsItem(t) ]_vars


\* the collectors called in a visit, as a set
TriedSet(v) == {v.tried[i] : i \in DOMAIN v.tried}

\* C28: in every visit of a cycle the local host is collected by the local
\* collector and no remote host is; for a remote host SNMP is called first
\* when it is enabled and not when it is disabled, and a snapshot from SNMP
\* ends the visit with that snapshot; SSH is called only when it is enabled
\* and no collector called before it gave a snapshot, and it is called last;
\* and no host has more than one update_snapshot in the cycle.
C28_MethodsInOrder ==
    /\ \A ip \in IPs : updates[ip] <= 1
    /\ visit # NoVisit =>
        /\ visit.ip = LocalIp => visit.tried # <<>> /\ Head(visit.tried) = "local"
        /\ visit.ip # LocalIp => "local" \notin TriedSet(visit)
        /\ (visit.ip # LocalIp /\ visit.snmp_on) =>
               visit.tried # <<>> /\ Head(visit.tried) = "snmp"
        /\ (visit.ip # LocalIp /\ ~visit.snmp_on) => "snmp" \notin TriedSet(visit)
        /\ (visit.ip # LocalIp /\ visit.snmp_on /\ visit.first = "snapshot") =>
               visit.tried = <<"snmp">> /\ visit.stored = "snmp"
        /\ "ssh" \in TriedSet(visit) =>
               /\ visit.ssh_on
               /\ visit.tried[Len(visit.tried)] = "ssh"
               /\ Len(visit.tried) > 1 => visit.first = "none"
        /\ visit.stored # "none" => visit.stored = visit.tried[Len(visit.tried)]
        /\ Len(visit.tried) <= 2

\* C28 witness: a cycle that ended after SNMP gave nothing for the remote host
\* and the SSH fallback gave the snapshot that was stored, once.
C28_Witness ==
    /\ ~collecting
    /\ visit.ip = "10.0.0.10"
    /\ visit.tried = <<"snmp", "ssh">>
    /\ visit.stored = "ssh"
    /\ updates["10.0.0.10"] = 1
    /\ Stored("10.0.0.10").collection_method = "ssh"


\* C29: at every moment the ping subprocesses outstanding, those of the
\* discovery loop's sweep and of a manual scan's sweep together, number at
\* most 50.
C29_PingsInFlight == in_flight["discovery"] + in_flight["manual"] <= ping_limit

\* the pings of one sweep alone number at most 50 at every moment
C29_PingsInFlightPerSweep == \A s \in Scans : in_flight[s] <= ping_limit


\* the number an IPv4 address in dotted-quad notation stands for
IpNumber(ip) ==
    CASE ip = "10.0.0.5"  -> 10 * 2^24 + 5
      [] ip = "10.0.0.10" -> 10 * 2^24 + 10
      [] OTHER            -> 0

\* the machine indices are a bijection from the projected IPs onto 1..N
IndexBijection ==
    LET ips == DOMAIN ip_to_index
    IN /\ {ip_to_index[ip] : ip \in ips} = 1..Cardinality(ips)
       /\ \A a \in ips, b \in ips : ip_to_index[a] = ip_to_index[b] => a = b

\* C30: after every rebuild the machine indices are a bijection from the
\* projected IPs onto 1..N, and of two projected IPs the numerically smaller
\* has the smaller index.
C30_IndexOrderNumeric ==
    /\ IndexBijection
    /\ \A a \in DOMAIN ip_to_index, b \in DOMAIN ip_to_index :
          IpNumber(a) < IpNumber(b) => ip_to_index[a] < ip_to_index[b]

\* the indices are a bijection onto 1..N that follows the order of the IPs
\* as strings
C30_IndexOrderString ==
    /\ IndexBijection
    /\ \A a \in DOMAIN ip_to_index, b \in DOMAIN ip_to_index :
          StrLess(a, b) => ip_to_index[a] < ip_to_index[b]


\* the repeater stream of the i-th requested OID in the answer to the GETBULK
\* in hand
Stream(i) ==
    LET n == Len(request.oids)
        k == request.non_repeaters
        len == [j \in 1..n |-> StreamLen(request.oids[j], request.max_repetitions)]
        first == Min(k, n) + SumOver(len, k + 1, i - 1) + 1
    IN SubSeq(response.var_binds, first, first + len[i] - 1)

\* the stream s from O is made of successive GETNEXT results, has at most
\* max_repetitions bindings, and holds endOfMibView at most once, as its last
\* binding
SuccessiveGetNext(s, O) ==
    /\ Len(s) <= request.max_repetitions
    /\ \A j \in 1..Len(s) : s[j] = GetNextBind(IF j = 1 THEN O ELSE s[j - 1].oid)
    /\ \A j \in 1..Len(s) : s[j].value = endOfMibView => j = Len(s)
    /\ (Len(s) < request.max_repetitions) => s[Len(s)].value = endOfMibView

\* the first min(non_repeaters, N) requested OIDs get one GETNEXT binding each
NonRepeatersAnswered ==
    \A i \in 1..Min(request.non_repeaters, Len(request.oids)) :
        response.var_binds[i] = GetNextBind(request.oids[i])

\* C31 (as stated): in the answer to a GETBULK every repeater stream is the
\* sequence of successive GETNEXT results from its starting OID, of at most
\* max_repetitions bindings, stopped at the first endOfMibView, and the OIDs of
\* all its bindings are strictly increasing; the non-repeaters get one GETNEXT
\* binding each.
C31_StreamsStrictlyIncreasing ==
    Answered("getbulk") =>
        /\ NonRepeatersAnswered
        /\ \A i \in (request.non_repeaters + 1)..Len(request.oids) :
              LET s == Stream(i) IN
              /\ SuccessiveGetNext(s, request.oids[i])
              /\ \A j \in 1..(Len(s) - 1) : TupleLess(s[j].oid, s[j + 1].oid)

\* C31 (amended): as stated, except that the OIDs are strictly increasing over
\* the bindings that carry a value, each greater than the starting OID, and
\* the endOfMibView binding repeats the OID the walk stopped at.
C31_StreamsIncreasingUntilEnd ==
    Answered("getbulk") =>
        /\ NonRepeatersAnswered
        /\ \A i \in (request.non_repeaters + 1)..Len(request.oids) :
              LET s == Stream(i) IN
              /\ SuccessiveGetNext(s, request.oids[i])
              /\ \A j \in 1..Len(s) :
                    LET prev == IF j = 1 THEN request.oids[i] ELSE s[j - 1].oid
                    IN IF s[j].value = endOfMibView
                       THEN s[j].oid = prev
                       ELSE TupleLess(prev, s[j].oid)

\* C31 witness: a GETBULK with one non-repeater and max_repetitions 2 whose
\* repeater starts at the uptime scalar of an empty store was answered with the
\* machine count and then endOfMibView at the machine count.
C31_Witness ==
    /\ Answered("getbulk")
    /\ request.oids = <<AGENT_VERSION, AGENT_UPTIME>>
    /\ request.non_repeaters = 1
    /\ request.max_repetitions = 2
    /\ Len(sorted_oids) = 3
    /\ response.var_binds[1].oid = AGENT_UPTIME
    /\ response.var_binds[2] = VarBind(MACHINE_COUNT, _to_snmp_value(oid_data[MACHINE_COUNT]))
    /\ response.var_binds[3] = VarBind(MACHINE_COUNT, endOfMibView)


\* C32: every response sent carries the request-id of the request in hand,
\* errorStatus 0 and errorIndex 0; the answer to a GET or a GETNEXT has one
\* var-bind per requested OID, the i-th being the answer to the i-th requested
\* OID.
C32_ResponseEchoesRequest ==
    response.sent =>
        /\ request # NoRequest
        /\ response.request_id = request.request_id
        /\ response.error_status = 0
        /\ response.error_index = 0
        /\ request.kind \in {"get", "getnext"} =>
              /\ Len(response.var_binds) = Len(request.oids)
              /\ \A i \in 1..Len(request.oids) :
                    LET O == request.oids[i]
                        b == response.var_binds[i]
                    IN IF request.kind = "get" THEN b.oid = O
                       ELSE IF Greater(O) = {} THEN b.oid = O
                       ELSE /\ b.oid \in Greater(O)
                            /\ \A g \in Greater(O) : ~TupleLess(g, b.oid)

\* C32 witness: a GET for an OID that is not projected and then the machine
\* count was answered under request-id 41 with those two OIDs, in that order.
C32_Witness ==
    /\ Answered("get")
    /\ request.request_id = 41
    /\ response.request_id = 41
    /\ request.oids = <<MEMORY_ENTRY(2) \o <<1>>, MACHINE_COUNT>>
    /\ response.var_binds[1].oid = MEMORY_ENTRY(2) \o <<1>>
    /\ response.var_binds[2].oid = MACHINE_COUNT


\* the SNMP type the claim gives a projected value: Integer32 for an int
\* within -2^31 .. 2^31-1, Counter64 for a larger int, OctetString otherwise
TypeByInspection(value) ==
    IF value.py = "int"
    THEN IF value.hi \in {-1, 0} THEN "Integer32"
         ELSE IF value.hi > 0 THEN "Counter64"
         ELSE "none"
    ELSE "OctetString"

IterationPairs == {pub_list[i] : i \in DOMAIN pub_list}

\* something of the kind `what` was attempted for ip in this iteration
Logged(ip, what, k) == \E e \in pub_log : e.ip = ip /\ e.what = what /\ e.k = k

\* every enabled device of the iteration was visited and every custom OID of
\* it polled, and published when the poll gave a value
IterationComplete ==
    \A it \in IterationPairs :
        it.config.enabled =>
            /\ Logged(it.ip, "visit", 0)
            /\ \A k \in 1..it.config.custom_oids :
                  /\ Logged(it.ip, "poll", k)
                  /\ Attempt(it.ip, "poll", k, TRUE) \in pub_log => Logged(it.ip, "publish", k)

\* C34: the publishing loop ends only when the flag _running is cleared; an
\* iteration reaches its sleep only after every enabled device was visited and
\* every custom OID of it polled (and published, when polled), whatever failed
\* on the way; and after the sleep the loop tests the flag and, the flag set,
\* starts the next iteration.
C34_FailureNeverHaltsLoop ==
    [][ /\ pub_pc' = "ended" => ~loop_running'
        /\ (pub_pc # "sleeping" /\ pub_pc' = "sleeping") => IterationComplete'
        /\ (pub_pc = "sleeping" /\ pub_pc' # pub_pc) => pub_pc' = "test"
        /\ (pub_pc = "test" /\ loop_running /\ pub_pc' # pub_pc) => pub_pc' = "device" ]_vars

\* C34 witness: an iteration that reached its sleep although the publish of the
\* first custom OID of the remote device met a broker error and the poll of the
\* second gave nothing; the local device was visited after that.
C34_Witness ==
    /\ pub_pc = "sleeping"
    /\ loop_running
    /\ mqtt_running
    /\ ~client_connected
    /\ Attempt("10.0.0.10", "storage", 0, TRUE) \in pub_log
    /\ Attempt("10.0.0.10", "publish", 1, FALSE) \in pub_log
    /\ Attempt("10.0.0.10", "poll", 2, FALSE) \in pub_log
    /\ Attempt("10.0.0.5", "cpu", 0, FALSE) \in pub_log

\* the configuration the iteration read for ip
ConfigOf(ip) ==
    IF \E it \in IterationPairs : it.ip = ip
    THEN (CHOOSE it \in IterationPairs : it.ip = ip).config
    ELSE NoConfig

\* C35: in an iteration a publish of a standard metric is attempted for a
\* device only if its configuration is enabled, the flag of the metric is set
\* and the device has a snapshot, and by the end of the iteration it was
\* attempted for every such device and metric; nothing is polled or published
\* for a device that is not enabled.
C35_StandardPublishIff ==
    /\ \A e \in pub_log :
          /\ ConfigOf(e.ip).enabled
          /\ e.what \in {"cpu", "memory", "storage"} =>
                PublishFlag(ConfigOf(e.ip), e.what) /\ HasSnapshot(e.ip)
    /\ pub_pc = "sleeping" =>
          \A it \in IterationPairs : \A what \in {"cpu", "memory", "storage"} :
              (it.config.enabled /\ PublishFlag(it.config, what) /\ HasSnapshot(it.ip))
                  => Logged(it.ip, what, 0)

\* C35 witness: an iteration over the remote device, configured but not
\* enabled, and the local device, enabled with only the cpu flag set and a
\* snapshot in the store: the one publish attempted is the local cpu.
C35_Witness ==
    /\ pub_pc = "sleeping"
    /\ Len(pub_list) = 2
    /\ ~ConfigOf("10.0.0.10").enabled
    /\ ConfigOf("10.0.0.5") = MqttDeviceConfig(TRUE, TRUE, FALSE, FALSE, 0)
    /\ HasSnapshot("10.0.0.5")
    /\ HasSnapshot("10.0.0.10")
    /\ {e \in pub_log : e.what # "visit"} = {Attempt("10.0.0.5", "cpu", 0, TRUE)}


\* C36: when from some point on the broker accepts connections, a service that
\* is running and disconnected becomes connected (unless it is stopped first),
\* the steps of the reconnect task being taken fairly; and the reconnect task
\* begins a connect attempt only while the service is disconnected, and none is
\* in progress while it is connected.
C36_ReconnectLiveness ==
    /\ (<>[]broker_accepts) =>
          [](mqtt_running /\ ~client_connected => <>(client_connected \/ ~mqtt_running))
    /\ [][ /\ (reconnect_task' = "connecting" /\ reconnect_task # "connecting")
                  => (mqtt_running /\ ~client_connected)
           /\ client_connected' => reconnect_task' # "connecting" ]_vars

\* C36 witness: the service is connected again, by an attempt of the reconnect
\* task, after a publish that failed had marked it disconnected.
C36_Witness ==
    /\ mqtt_running
    /\ client_connected
    /\ broker_accepts
    /\ last_publish = "failed"
    /\ reconnect_task = "loop"
    /\ fail_streak = 0
    /\ reconnect_interval = initial_reconnect_interval


\* C37: in every state of the store each ip that has a snapshot has an entry in
\* the registry of machines, whatever add_machine, update_snapshot,
\* update_snapshots, remove_machine and clear calls were made.
C37_SnapshotsWithinMachines ==
    {ip \in IPs : HasSnapshot(ip)} \subseteq {ip \in IPs : HasMachine(ip)}

\* C37 witness: update_snapshots has just stored a snapshot for an ip that was
\* not in the registry, and the ip is in the registry now.
C37_Witness ==
    /\ lastOp.op = "update_snapshots"
    /\ ~lastOp.known
    /\ HasSnapshot(lastOp.ip)
    /\ HasMachine(lastOp.ip)


----------------------------------------------------------------------------
(* Claims about the sorted index, checked under SpecSwap *)

\* the OIDs a next-OID lookup is made for: every key, the root of the subtree
\* and an OID below every key
LookupProbes == DOMAIN oid_data \cup {HW_AGGREGATOR, <<1>>}

\* C38: whenever the event loop can start the datagram handler (no rebuild is
\* under way), the sorted index lists exactly the keys of the map, each once,
\* in strictly ascending component-wise numeric order; every OID that
\* _get_next_oid returns is a key of the map; and the three agent scalars are
\* keys.
C38_IndexMatchesMap ==
    update_pc = "idle" =>
        /\ Len(sorted_oids) = Cardinality(DOMAIN oid_data)
        /\ {sorted_oids[k] : k \in 1..Len(sorted_oids)} = DOMAIN oid_data
        /\ \A j, k \in 1..Len(sorted_oids) :
              j < k => TupleLess(sorted_oids[j], sorted_oids[k])
        /\ \A o \in LookupProbes :
              _get_next_oid(o) # NoOid => _get_next_oid(o) \in DOMAIN oid_data
        /\ {AGENT_VERSION, AGENT_UPTIME, MACHINE_COUNT} \subseteq DOMAIN oid_data

\* C38 witness: a GETNEXT is being handled on a projection of two machines,
\* rebuilt after the store changed, whose CPU table has the columns 2 and 10.
C38_Witness ==
    /\ update_pc = "idle"
    /\ request.kind = "getnext"
    /\ Cardinality(DOMAIN ip_to_index) = 2
    /\ (CPU_ENTRY(2) \o <<2>>) \in DOMAIN oid_data
    /\ (CPU_ENTRY(10) \o <<2>>) \in DOMAIN oid_data
    /\ response.sent
    /\ response.var_binds[1].oid \in DOMAIN oid_data


----------------------------------------------------------------------------
(* Claim about a walk by GETNEXT, checked under SpecWalk *)

\* the projected OIDs greater than the start of the walk
AfterStart == {o \in DOMAIN oid_data : TupleLess(walk_start, o)}

\* C39: a walk by repeated GETNEXT over an unchanged projection ends with
\* endOfMibView; the OIDs it was answered with are strictly ascending and all
\* greater than its start, and when it has ended they are exactly the projected
\* OIDs greater than its start, each once.
C39_WalkTerminates ==
    /\ (walk_pc = "walking") ~> (walk_pc = "ended")
    /\ [](\A j, k \in 1..Len(walk_seen) : j < k => TupleLess(walk_seen[j], walk_seen[k]))
    /\ []({walk_seen[k] : k \in 1..Len(walk_seen)} \subseteq AfterStart)
    /\ [](walk_pc = "ended" =>
             /\ {walk_seen[k] : k \in 1..Len(walk_seen)} = AfterStart
             /\ Len(walk_seen) = Cardinality(AfterStart))

\* C39 witness: a walk from the root of the subtree over the projection of two
\* machines has ended after it visited every projected OID.
C39_Witness ==
    /\ walk_pc = "ended"
    /\ walk_start = HW_AGGREGATOR
    /\ Cardinality(DOMAIN ip_to_index) = 2
    /\ Len(walk_seen) = Cardinality(DOMAIN oid_data)
    /\ Len(walk_seen) > 3


----------------------------------------------------------------------------
(* Claim about the stop of the MQTT service, checked under SpecStop *)

\* C40: once stop has completed the service is not running and not connected,
\* the reconnect task has ended and begins no connect attempt, no call of the
\* broker is begun, and a publish called from then on is refused; a publish
\* that was in flight when stop ran may still end.
C40_StopStaysStopped ==
    /\ [](mqtt_stop_pc = "done" =>
             /\ ~mqtt_running
             /\ ~client_connected
             /\ ~late_calls
             /\ reconnect_task \in {"cancelled", "done", "disabled"})
    /\ [][ mqtt_stop_pc = "done" =>
             /\ mqtt_stop_pc' = "done"
             /\ reconnect_task' = reconnect_task
             /\ publish_pc = "none" =>
                   /\ publish_pc' = "none"
                   /\ last_publish' \in {last_publish, "refused"} ]_vars

\* C40 witness: stop has completed, after it cancelled the reconnect task and
\* disconnected the client, while a publish that began before it is still in
\* flight.
C40_Witness ==
    /\ mqtt_stop_pc = "done"
    /\ reconnect_task = "cancelled"
    /\ publish_pc = "in_flight"
    /\ ~client_connected
    /\ ~mqtt_running

====
